---------------------------- MODULE Spec2Model ----------------------------
(***************************************************************************)
(* A model of the toloka-kit streaming core:                               *)
(*   - streaming/cursor.py:   _ByIdCursor, BaseCursor, CursorFetchContext  *)
(*   - streaming/pipeline.py: _Worker, Pipeline                            *)
(* The remote collection (the fetcher) and the storage are the             *)
(* environment; they follow the contracts of their callers.                *)
(***************************************************************************)
EXTENDS Integers, Sequences, FiniteSets, TLC

(***************************************************************************)
(* Bounds of the model.                                                    *)
(***************************************************************************)
\* Item ids are 1..MaxItems: at most MaxItems items ever exist remotely.
MaxItems == 4
\* Item times are 1..MaxTime.
MaxTime == 2
\* The remote returns at most PageSize items per response.
PageSize == 2

\* The pipeline runs NumObservers registered observers.
NumObservers == 2
\* The processes of the pipeline begin at most MaxIter iterations, all together.
MaxIter == 4
\* Pipeline.period, in seconds.
Period == 20
\* The process of the pipeline is started at most MaxRuns times.
MaxRuns == 2
\* A cursor is injected, copied or replaced at most MaxInjects times.
MaxInjects == 3
\* register is called at most MaxRegisters times on a pipeline.
MaxRegisters == 3

\* The timeout given to wait_operation is at most MaxTimeout ticks.
MaxTimeout == 4
\* A cursor of a metric yields at most MaxEvents events in one call.
MaxEvents == 3

\* datetime.fromtimestamp(0): below every item time.
DATETIME_MIN == 0
\* Pipeline.MIN_SLEEP_SECONDS
MIN_SLEEP_SECONDS == 10
\* datetime.min, seen from any datetime.now(): not after it.
DATETIME_MIN_PY == 0
\* wait_operation: default_time_to_wait, 1 second, in ticks of 500 ms
default_time_to_wait == 2
\* wait_operation: default_initial_delay, 500 ms, in ticks of 500 ms
default_initial_delay == 1
\* An await takes its time and up to MaxLate ticks more.
MaxLate == 1

Ids == 1..MaxItems
Times == 1..MaxTime

\* Optional values: None is the empty tuple, a present value v is <<v>>.
None == <<>>
Some(v) == <<v>>
Get(o) == o[1]

Min(a, b) == IF a <= b THEN a ELSE b
Range(s) == {s[k] : k \in 1..Len(s)}
Last(s) == s[Len(s)]

VARIABLES
    \* ---- the remote collection (environment of the cursor)
    remote,         \* set of items [id, t] present in the remote collection
    tieDesc,        \* how the remote orders equal-time items of a time-sorted page
    \* ---- BaseCursor
    request,        \* _request: [gte, gt, lte, id_gt]
    prev_response,  \* _prev_response
    seen_ids,       \* _seen_ids
    \* ---- a running iteration of the cursor (generator frame of __iter__)
    pc,             \* "idle" | "paging" | "drain" | "body"
    mode,           \* "iter" (plain pass) | "fetch_all" (inside try_fetch_all)
    response,       \* local `response` of __iter__ while the by-id drain runs
    byid_request,   \* _ByIdCursor.request while the drain runs
    res,            \* the events collected by the running pass, in yield order
    \* ---- CursorFetchContext
    start_state,    \* _start_state
    finish_state,   \* _finish_state
    \* ---- history (not read by the program)
    yielded,        \* ids handed to the caller by plain passes, process lifetime
    late,           \* ids added to the remote behind the cursor's frontier
    added,          \* ids added since the last pass started
    addedOk,        \* no item of `added` was older than the last yielded item
    passAdded,      \* value of `added` when the running/last pass started
    passOk,         \* the running/last pass started after a normal return, adds in order
    entry,          \* cursor state when the running/last try_fetch_all was entered
    lastExit,       \* how the last try_fetch_all ended: none|commit|raise|fail
    committed,      \* ids of the buffers committed by a normal scope exit
    dropped,        \* ids consumed by an entry that failed, not delivered since
    prevRes,        \* buffer of the last scope, if its body raised and nothing changed since
    \* ---- Pipeline and its environment
    obsKey,         \* observer._get_unique_key() of each registered observer
    p_name,         \* Pipeline.name
    pipeline_key,   \* local `pipeline_key` of run
    hasStorage,     \* Pipeline.storage is set
    p_pc,           \* where run is: start|wait|wait_rest|sleep|returned|raised|value_error
    iteration,      \* local `iteration` of run (0 before the first)
    check_mode,     \* local `check_mode` of run
    pending,        \* local `pending` of run: when to start the worker of each key
    pending_keys,   \* the keys of the dict `pending`, in insertion order
    waiting,        \* local `waiting` of run: the workers with a task not yet processed
    task,           \* the last task of each worker: [st, start]
    should_resume,  \* _Worker.should_resume
    obsState,       \* the state an observer would save: the number of its advances
    stored,         \* the storage: the state saved under each observer key
    lock_held,      \* the lock of the storage is held by run
    sleep_left,     \* seconds left of the running asyncio.sleep
    excs,           \* the tasks whose exceptions the raised ComplexException holds
    runs,           \* how many times the process was started
    spent,          \* how many iterations the processes began, all together
    ph,             \* history of the pipeline (not read by the program)
    \* ---- a second Pipeline instance with the same pipeline_key and storage
    peer_pc,        \* where its run is: none|out|locked
    \* ---- a second cursor of the same class, at rest
    other,          \* its _request, _prev_response and _seen_ids
    shared,         \* its _seen_ids is the very set object of the first cursor
    inj,            \* history: its request and seen_ids at the last inject
    injects,        \* how many times a cursor was injected, copied or replaced
    \* ---- the caller and the observers of the pipeline
    observers,      \* Pipeline._observers: a dict, its entries in insertion order
    no_work,        \* the observers have run out of work: they report false from now on
    \* ---- history of the calls of the caller (not read by the program)
    reg,            \* register: the arguments of its calls, its last return value
    caller_request, \* the request object the caller gave to the constructor of the cursor
    supplied,       \* history: that request as it was when the caller gave it
    ended,          \* history: how the last plain pass ended: none|returned|raised
    failed,         \* history: where in a plain pass the fetcher has raised: paging, drain
    passLog,        \* history of the pass: its start state, the requests it issued,
                    \* the ids the by-id sub-cursor of its last drain yielded
    \* ---- AsyncTolokaClient.wait_operation, one call
    w_pc,           \* where the call is: idle|called|initial_delay|get_operation|
                    \* time_to_wait|returned|timeout
    utcnow,         \* the clock, datetime.utcnow(), in ticks of 500 ms
    op,             \* local `op`: what is_completed() says and its `started`
    server_completed,   \* the operation is completed on the server
    wait_until_time,    \* local `wait_until_time`
    timeout,        \* argument `timeout`, in ticks
    wh,             \* history of the call: the op given, the time of the call,
                    \* the calls of get_operation, the op returned
    \* ---- AssignmentEventsInPool._get_lines_impl, one call
    m_pc,           \* where the call is: idle|called|returned|raised
    join_events,    \* AssignmentEventsInPool._join_events
    event_lists,    \* per metric name, the events its cursor yields in this call
    result          \* what the call returned, or the exception it raised

cursorVars == <<remote, tieDesc, request, prev_response, seen_ids, pc, mode,
                response, byid_request, res, start_state, finish_state>>
histVars == <<yielded, late, added, addedOk, passAdded, passOk, entry,
              lastExit, committed, dropped, prevRes>>
pipelineVars == <<obsKey, p_name, pipeline_key, hasStorage, p_pc, iteration, check_mode, pending,
                  pending_keys, waiting,
                  task, should_resume, obsState, stored, lock_held, sleep_left,
                  excs, runs, spent, ph>>
peerVars == <<peer_pc>>
injectVars == <<other, shared, inj, injects>>
envVars == <<observers, no_work>>
callVars == <<reg, caller_request, supplied, ended, failed, passLog>>
waitVars == <<w_pc, utcnow, op, server_completed, wait_until_time, timeout, wh>>
metricVars == <<m_pc, join_events, event_lists, result>>
vars == <<cursorVars, histVars, pipelineVars, peerVars, injectVars, envVars, callVars,
          waitVars, metricVars>>

(***************************************************************************)
(* The remote fetcher: items matching the request, sorted, one page.       *)
(***************************************************************************)
EmptyRequest == [gte |-> None, gt |-> None, lte |-> None, id_gt |-> None]

\* attr.evolve(request, field=value)
evolve(req, f, v) == [req EXCEPT ![f] = v]

Matches(req) ==
    {it \in remote :
        /\ (req.gte = None \/ it.t >= Get(req.gte))
        /\ (req.gt = None \/ it.t > Get(req.gt))
        /\ (req.lte = None \/ it.t <= Get(req.lte))
        /\ (req.id_gt = None \/ it.id > Get(req.id_gt))}

\* The order of the response for sort = "id" and sort = "time".
Before(a, b, sort) ==
    IF sort = "id" THEN a.id < b.id
    ELSE \/ a.t < b.t
         \/ a.t = b.t /\ (IF tieDesc THEN a.id > b.id ELSE a.id < b.id)

RECURSIVE SortItems(_, _)
SortItems(S, sort) ==
    IF S = {} THEN <<>>
    ELSE LET m == CHOOSE x \in S : \A y \in S \ {x} : Before(x, y, sort)
         IN <<m>> \o SortItems(S \ {m}, sort)

fetcher(req, sort) ==
    LET all == SortItems(Matches(req), sort)
    IN [items |-> SubSeq(all, 1, Min(PageSize, Len(all))),
        has_more |-> Len(all) > PageSize]


(***************************************************************************)
(* BaseCursor                                                              *)
(***************************************************************************)
\* __attrs_post_init__: an unset lower time bound becomes DATETIME_MIN.
NewRequest(req) ==
    IF req.gte = None THEN evolve(req, "gte", Some(DATETIME_MIN)) ELSE req

\* Mutant of PostInitRequest: the lower bound is set on the request object
\* the caller gave.
PostInitInPlace(req) == [own |-> NewRequest(req), callers |-> NewRequest(req)]

\* What __attrs_post_init__ makes of the request object `req` that the
\* constructor got: the request of the cursor, and the object of the caller.
\* attr.evolve builds a new object and leaves `req` as it is.
PostInitRequest(req) == [own |-> NewRequest(req), callers |-> req]

\* _get_state
CursorState == <<request, prev_response, seen_ids>>

IdsOf(items) == {items[k].id : k \in 1..Len(items)}

\* Mutant of ProcessItems: the check `item.id not in self._seen_ids` is lost.
RECURSIVE ProcessItemsNoDedup(_, _)
ProcessItemsNoDedup(items, st) ==
    IF items = <<>> THEN st
    ELSE LET item == Head(items)
         IN ProcessItemsNoDedup(Tail(items),
                [request  |-> evolve(st.request, "gte", Some(item.t)),
                 seen_ids |-> st.seen_ids \cup {item.id},
                 out      |-> Append(st.out, item)])

\* Mutant of ProcessItems: a yielded item does not advance T_gte.
RECURSIVE ProcessItemsKeepRequest(_, _)
ProcessItemsKeepRequest(items, st) ==
    IF items = <<>> THEN st
    ELSE LET item == Head(items)
         IN ProcessItemsKeepRequest(Tail(items),
                IF item.id \notin st.seen_ids
                THEN [st EXCEPT !.seen_ids = @ \cup {item.id},
                                !.out = Append(@, item)]
                ELSE st)

\* The loop `for item in response.items` of __iter__: every unseen item
\* advances T_gte to its time, enters seen_ids and is yielded.
RECURSIVE ProcessItems(_, _)
ProcessItems(items, st) ==
    IF items = <<>> THEN st
    ELSE LET item == Head(items)
         IN ProcessItems(Tail(items),
                IF item.id \notin st.seen_ids
                THEN [request  |-> evolve(st.request, "gte", Some(item.t)),
                      seen_ids |-> st.seen_ids \cup {item.id},
                      out      |-> Append(st.out, item)]
                ELSE st)

\* The loop `for item in _ByIdCursor(...)` of __iter__, for one response of
\* the sub-cursor: every unseen item enters seen_ids and is yielded.
RECURSIVE ProcessDrained(_, _)
ProcessDrained(items, st) ==
    IF items = <<>> THEN st
    ELSE LET item == Head(items)
         IN ProcessDrained(Tail(items),
                IF item.id \notin st.seen_ids
                THEN [st EXCEPT !.seen_ids = @ \cup {item.id},
                                !.out = Append(@, item)]
                ELSE st)

\* Mutant of StripSeen: the ids of the page are added, nothing is dropped.
StripSeenKeeps(resp, seen) == seen \cup IdsOf(resp.items)

\* `self._seen_ids = {item.id for item in response.items}`
StripSeen(resp, seen) == IdsOf(resp.items)

\* Mutant of AfterDrain: the request is left as it was before the drain.
AfterDrainKeeps(req, max_time) == req

\* `self._request = attr.evolve(self._request, T_gt=max_time)` after the drain
AfterDrain(req, max_time) == evolve(req, "gt", Some(max_time))

\* Mutant of FixedTimeRequest: the drain request is not closed at max_time.
FixedTimeRequestOpen(req, max_time) == req

\* `fixed_time_request = attr.evolve(self._request, T_lte=max_time)`
FixedTimeRequest(req, max_time) == evolve(req, "lte", Some(max_time))

\* Whether __iter__ starts the by-id drain after a page with has_more.
WholePageSameTime(resp) == resp.items[1].t = Last(resp.items).t

\* Mutant of ByIdNext: id_gt becomes the id of the first item of the page.
ByIdNextFirst(req, resp) == evolve(req, "id_gt", Some(resp.items[1].id))

\* _ByIdCursor: the request after a non-empty response.
ByIdNext(req, resp) == evolve(req, "id_gt", Some(Last(resp.items).id))

\* `self._seen_ids.add(item.id)` changes the set object in place: a second
\* cursor that holds the same object sees the set `seen` too.
SeenMutated(seen) ==
    /\ other' = IF shared THEN [other EXCEPT !.seen_ids = seen] ELSE other
    /\ shared' = shared

\* `self._seen_ids = ...` binds the cursor to another set object: the object
\* it held, with content `seen`, stays with a second cursor that holds it.
SeenRebound(seen) ==
    /\ other' = IF shared THEN [other EXCEPT !.seen_ids = seen] ELSE other
    /\ shared' = FALSE

\* The request of the next fetch of the pass and the sort it is issued
\* with: `fetcher(self._request, sort=time field)` in __iter__,
\* `self.fetcher(self.request, sort='id')` in the by-id sub-cursor.
NextFetch ==
    IF pc = "drain" THEN <<"id", Get(byid_request)>> ELSE <<"time", request>>

\* The log of a pass that starts in cursor state `state`.
NewLog(state) == [start |-> state, issued |-> <<>>, drained |-> <<>>]

\* The log holds the first MaxLog requests of a pass: more than a pass
\* that ends issues.
MaxLog == 4 * MaxItems

\* The log after the fetch of this step, which leaves the pass at `npc`: the
\* request is issued; in a drain the sub-cursor yields every item of the
\* response (`for item in response.items: yield item`).
LogFetch(npc) ==
    [passLog EXCEPT
        !.issued = IF Len(@) < MaxLog THEN Append(@, NextFetch) ELSE @,
        !.drained =
            IF pc = "drain"
            THEN LET items == fetcher(Get(byid_request), "id").items
                 IN @ \o [k \in 1..Len(items) |-> items[k].id]
            ELSE IF npc = "drain" THEN <<>> ELSE @]

\* The events of `out` reach the caller: a plain pass hands each to the
\* caller as it is yielded, try_fetch_all collects them in its buffer.
Emit(out) ==
    /\ res' = res \o out
    /\ yielded' = IF mode = "iter"
                  THEN yielded \o [k \in 1..Len(out) |-> out[k].id]
                  ELSE yielded

\* Mutant of EnterReturns: __enter__ does not put the start state back.
EnterReturnsAdvanced(state) ==
    /\ finish_state' = Some(state)
    /\ request' = state[1]
    /\ prev_response' = state[2]
    /\ seen_ids' = state[3]
    /\ pc' = "body"

\* CursorFetchContext.__enter__ after the iteration: remember the finish
\* state, put the start state back, hand the buffer to the body.
EnterReturns(state) ==
    /\ finish_state' = Some(state)
    /\ request' = Get(start_state)[1]
    /\ prev_response' = Get(start_state)[2]
    /\ seen_ids' = Get(start_state)[3]
    /\ pc' = "body"

\* __iter__ returns: the pass of the caller ends with cursor state `state`.
Return(state, out) ==
    /\ Emit(out)
    /\ response' = None
    /\ byid_request' = None
    /\ IF mode = "iter"
       THEN /\ request' = state[1]
            /\ prev_response' = state[2]
            /\ seen_ids' = state[3]
            /\ pc' = "idle"
            /\ UNCHANGED finish_state
       ELSE EnterReturns(state)
    /\ UNCHANGED <<remote, tieDesc, mode, start_state>>
    /\ UNCHANGED <<late, added, addedOk, passAdded, passOk, entry, lastExit,
                   committed, dropped, prevRes>>
    /\ IF mode = "iter" THEN SeenMutated(state[3]) ELSE SeenRebound(state[3])
    /\ ended' = IF mode = "iter" THEN "returned" ELSE ended
    /\ passLog' = LogFetch("idle")
    /\ UNCHANGED <<pipelineVars, peerVars, inj, injects, envVars, reg, caller_request,
                   supplied, waitVars, metricVars, failed>>

\* __iter__ goes on with its next fetch.
Continue(state, out, npc, nresponse, nbyid) ==
    /\ Emit(out)
    /\ request' = state[1]
    /\ prev_response' = state[2]
    /\ seen_ids' = state[3]
    /\ pc' = npc
    /\ response' = nresponse
    /\ byid_request' = nbyid
    /\ passLog' = LogFetch(npc)
    /\ UNCHANGED <<remote, tieDesc, mode, start_state, finish_state>>
    /\ UNCHANGED <<late, added, addedOk, passAdded, passOk, entry, lastExit,
                   committed, dropped, prevRes>>
    /\ UNCHANGED <<pipelineVars, peerVars, inj, injects, envVars, reg, caller_request,
                   supplied, waitVars, metricVars, ended, failed>>

\* One round of the `while True` loop of __iter__ up to its next fetch:
\* fetch a page sorted by time and process it.
FetchPage ==
    /\ pc = "paging"
    /\ \E resp \in {fetcher(request, "time")} :
          IF resp.items = <<>>
          THEN Return(CursorState, <<>>)
          ELSE \E max_time \in {Last(resp.items).t},
                  st \in {ProcessItems(resp.items,
                            [request |-> request, seen_ids |-> seen_ids, out |-> <<>>])} :
                  IF ~resp.has_more
                  THEN Return(<<st.request, Some(resp), st.seen_ids>>, st.out)
                  ELSE IF WholePageSameTime(resp)
                  THEN /\ Continue(<<st.request, Some(resp), st.seen_ids>>, st.out,
                                   "drain", Some(resp),
                                   Some(FixedTimeRequest(st.request, max_time)))
                       /\ SeenMutated(st.seen_ids)
                  ELSE /\ Continue(<<st.request, Some(resp),
                                     StripSeen(resp, st.seen_ids)>>,
                                   st.out, "paging", None, None)
                       /\ SeenRebound(st.seen_ids)

\* One round of _ByIdCursor.__iter__ inside the drain of __iter__; after
\* the last round __iter__ moves T_gt, strips seen_ids and pages on.
FetchById ==
    /\ pc = "drain"
    /\ \E resp \in {fetcher(Get(byid_request), "id")} :
       \E st \in {ProcessDrained(resp.items,
                    [request |-> request, seen_ids |-> seen_ids, out |-> <<>>])},
          nreq \in {IF resp.items # <<>> THEN ByIdNext(Get(byid_request), resp)
                    ELSE Get(byid_request)},
          page \in {Get(response)} :
          IF resp.has_more
          THEN /\ Continue(<<request, prev_response, st.seen_ids>>, st.out,
                           "drain", response, Some(nreq))
               /\ SeenMutated(st.seen_ids)
          ELSE /\ Continue(<<AfterDrain(request, Last(page.items).t), prev_response,
                             StripSeen(page, st.seen_ids)>>,
                           st.out, "paging", None, None)
               /\ SeenRebound(st.seen_ids)


\* Mutant of RaisedState: the exception takes the seen ids with it.
RaisedStateForgets(state) == <<state[1], state[2], {}>>

\* The state of the cursor when an exception has left __iter__: nothing
\* catches it and nothing is undone, what the pass changed so far stays.
RaisedState(state) == state

\* The fetcher raises inside __iter__ (a fetch by time or by id): the
\* exception leaves the generator; what the pass changed so far stays.
\* Inside try_fetch_all this is __enter__ raising: the buffer is gone, no
\* body runs and __exit__ is not called.
FetchRaise ==
    /\ pc \in {"paging", "drain"}
    /\ pc' = "idle"
    /\ response' = None
    /\ byid_request' = None
    /\ request' = RaisedState(CursorState)[1]
    /\ prev_response' = RaisedState(CursorState)[2]
    /\ seen_ids' = RaisedState(CursorState)[3]
    /\ lastExit' = IF mode = "fetch_all" THEN "fail" ELSE lastExit
    /\ dropped' = IF mode = "fetch_all" THEN dropped \cup IdsOf(res) ELSE dropped
    /\ prevRes' = None
    /\ ended' = IF mode = "iter" THEN "raised" ELSE ended
    /\ failed' = IF mode = "iter" THEN failed \cup {pc} ELSE failed
    /\ passLog' = LogFetch("idle")
    /\ UNCHANGED <<remote, tieDesc, mode, res, start_state, finish_state>>
    /\ UNCHANGED <<yielded, late, added, addedOk, passAdded, passOk, entry, committed>>
    /\ UNCHANGED <<pipelineVars, peerVars, injectVars, envVars, reg, caller_request,
                   supplied, waitVars, metricVars>>

\* The constructor of the cursor: the attrs __init__ has stored the request
\* object of the caller as _request, __attrs_post_init__ runs.
PostInit ==
    /\ pc = "new"
    /\ pc' = "idle"
    /\ request' = PostInitRequest(request).own
    /\ caller_request' = PostInitRequest(request).callers
    /\ UNCHANGED <<remote, tieDesc, prev_response, seen_ids, mode, response,
                   byid_request, res, start_state, finish_state>>
    /\ UNCHANGED <<histVars, pipelineVars, peerVars, injectVars, envVars, reg, supplied, waitVars, metricVars,
                   ended, failed, passLog>>

\* The caller starts a plain pass: iter(cursor), run to its end.
StartIter ==
    /\ pc = "idle"
    /\ Len(yielded) <= MaxItems
    /\ pc' = "paging"
    /\ mode' = "iter"
    /\ res' = <<>>
    /\ passAdded' = added
    /\ passOk' = addedOk
    /\ added' = {}
    /\ addedOk' = TRUE
    /\ prevRes' = None
    /\ UNCHANGED <<remote, tieDesc, request, prev_response, seen_ids, response,
                   byid_request, start_state, finish_state>>
    /\ passLog' = NewLog(CursorState)
    /\ UNCHANGED <<yielded, late, entry, lastExit, committed, dropped>>
    /\ UNCHANGED <<pipelineVars, peerVars, injectVars, envVars, reg, caller_request,
                   supplied, waitVars, metricVars, ended, failed>>

\* copy.deepcopy of a state tuple: a value equal to it, sharing nothing.
DeepCopy(state) == state

\* `with cursor.try_fetch_all() as events:` CursorFetchContext.__enter__
\* saves a copy of the state and starts to iterate the cursor.
Enter ==
    /\ pc = "idle"
    /\ pc' = "paging"
    /\ mode' = "fetch_all"
    /\ res' = <<>>
    /\ start_state' = Some(DeepCopy(CursorState))
    /\ finish_state' = None
    /\ entry' = CursorState
    /\ passLog' = NewLog(CursorState)
    /\ UNCHANGED <<remote, tieDesc, request, prev_response, seen_ids, response,
                   byid_request>>
    /\ UNCHANGED <<yielded, late, added, addedOk, passAdded, passOk, lastExit,
                   committed, dropped, prevRes>>
    /\ UNCHANGED <<pipelineVars, peerVars, injectVars, envVars, reg, caller_request,
                   supplied, waitVars, metricVars, ended, failed>>

\* Mutant of ExitCommits: __exit__ commits whatever the body did.
ExitCommitsAlways(exc_type) == TRUE

\* CursorFetchContext.__exit__: `if exc_type is None`
ExitCommits(exc_type) == exc_type = None

\* CursorFetchContext.__exit__(exc_type, ...)
Exit(exc_type) ==
    /\ pc = "body"
    /\ pc' = "idle"
    /\ IF ExitCommits(exc_type)
       THEN /\ request' = Get(finish_state)[1]
            /\ prev_response' = Get(finish_state)[2]
            /\ seen_ids' = Get(finish_state)[3]
       ELSE UNCHANGED <<request, prev_response, seen_ids>>
    /\ lastExit' = IF exc_type = None THEN "commit" ELSE "raise"
    /\ committed' = IF exc_type = None THEN committed \cup IdsOf(res) ELSE committed
    /\ prevRes' = IF exc_type = None THEN None ELSE Some(res)
    /\ dropped' = dropped \ IdsOf(res)
    /\ UNCHANGED <<remote, tieDesc, mode, response, byid_request, res,
                   start_state, finish_state>>
    /\ UNCHANGED <<yielded, late, added, addedOk, passAdded, passOk, entry>>
    /\ UNCHANGED <<pipelineVars, peerVars, injectVars, envVars, callVars, waitVars, metricVars>>

\* The body of the with statement ends normally.
BodyExit == Exit(None)

\* The body of the with statement raises.
BodyRaise == Exit(Some("Exception"))

(***************************************************************************)
(* The suspending iteration: __aiter__, the async by-id drain, __aenter__  *)
(* and __aexit__, each as the function of the state it starts in. A run    *)
(* `st` holds the cursor attributes, the events yielded so far (out) and   *)
(* the requests issued so far (issued).                                    *)
(***************************************************************************)
\* _ByIdCursor.__aiter__: `acc` holds the items yielded and the requests
\* issued so far.
RECURSIVE ByIdAiter(_, _)
ByIdAiter(req, acc) ==
    LET resp == fetcher(req, "id")
        acc1 == [items  |-> acc.items \o resp.items,
                 issued |-> Append(acc.issued, <<"id", req>>)]
    IN IF ~resp.has_more THEN acc1
       ELSE ByIdAiter(IF resp.items # <<>>
                      THEN evolve(req, "id_gt", Some(Last(resp.items).id))
                      ELSE req,
                      acc1)

\* The loop `for item in response.items` of __aiter__.
RECURSIVE AiterItems(_, _)
AiterItems(items, st) ==
    IF items = <<>> THEN st
    ELSE AiterItems(Tail(items),
            IF Head(items).id \in st.seen_ids THEN st
            ELSE [st EXCEPT !.request = evolve(@, "gte", Some(Head(items).t)),
                            !.seen_ids = @ \cup {Head(items).id},
                            !.out = Append(@, Head(items))])

\* The loop `async for item in _ByIdCursor(...)` of __aiter__.
RECURSIVE AiterDrained(_, _)
AiterDrained(items, st) ==
    IF items = <<>> THEN st
    ELSE AiterDrained(Tail(items),
            IF Head(items).id \in st.seen_ids THEN st
            ELSE [st EXCEPT !.seen_ids = @ \cup {Head(items).id},
                            !.out = Append(@, Head(items))])

\* BaseCursor.__aiter__, consumed to its end.
RECURSIVE Aiter(_)
Aiter(st) ==
    LET resp == fetcher(st.request, "time")
        st0 == [st EXCEPT !.issued = Append(@, <<"time", st.request>>)]
    IN IF resp.items = <<>> THEN st0
       ELSE LET max_time == Last(resp.items).t
                st1 == AiterItems(resp.items,
                          [st0 EXCEPT !.prev_response = Some(resp)])
            IN IF ~resp.has_more THEN st1
               ELSE LET sub == ByIdAiter(evolve(st1.request, "lte", Some(max_time)),
                                         [items |-> <<>>, issued |-> <<>>])
                        drained == AiterDrained(sub.items, st1)
                        st2 == IF resp.items[1].t = max_time
                               THEN [drained EXCEPT
                                        !.request = evolve(@, "gt", Some(max_time)),
                                        !.issued = @ \o sub.issued]
                               ELSE st1
                    IN Aiter([st2 EXCEPT !.seen_ids = IdsOf(resp.items)])

\* A run of __aiter__ that starts in cursor state `state`.
AiterFrom(state) ==
    Aiter([request |-> state[1], prev_response |-> state[2], seen_ids |-> state[3],
           out |-> <<>>, issued |-> <<>>])

\* CursorFetchContext.__aenter__ on a cursor in state `state`: the context
\* it leaves, the cursor state it leaves and the buffer it returns.
Aenter(state) ==
    LET start == DeepCopy(state)
        run == AiterFrom(state)
    IN [start_state  |-> Some(start),
        finish_state |-> Some(<<run.request, run.prev_response, run.seen_ids>>),
        state        |-> start,
        res          |-> run.out,
        issued       |-> run.issued]

\* CursorFetchContext.__aexit__(exc_type, ...) with the cursor in state
\* `state`: the cursor state it leaves.
Aexit(finish, state, exc_type) == IF exc_type = None THEN Get(finish) ELSE state

(***************************************************************************)
(* The remote collection grows between the passes of the cursor.           *)
(***************************************************************************)
TimeOf(id) == (CHOOSE it \in remote : it.id = id).t

\* An item with time t would not match the cursor's request any more.
Behind(t) ==
    \/ t < Get(request.gte)
    \/ request.gt # None /\ t <= Get(request.gt)

AddItem ==
    /\ pc = "idle"
    /\ \E i \in Ids, t \in Times :
        /\ \A it \in remote : it.id # i
        /\ remote' = remote \cup {[id |-> i, t |-> t]}
        \* the history of plain passes
        /\ IF mode = "iter"
           THEN /\ late' = IF Behind(t) THEN late \cup {i} ELSE late
                /\ added' = added \cup {i}
                /\ addedOk' = (addedOk /\ (yielded = <<>> \/ t >= TimeOf(Last(yielded))))
           ELSE UNCHANGED <<late, added, addedOk>>
    /\ prevRes' = None
    /\ UNCHANGED <<tieDesc, request, prev_response, seen_ids, pc, mode, response,
                   byid_request, res, start_state, finish_state>>
    /\ UNCHANGED <<yielded, passAdded, passOk, entry, lastExit, committed, dropped>>
    /\ UNCHANGED <<pipelineVars, peerVars, injectVars, envVars, callVars, waitVars, metricVars>>

(***************************************************************************)
(* inject, with a second cursor of the same class.                         *)
(***************************************************************************)
\* The state of a cursor once constructed.
FreshState ==
    [request |-> NewRequest(EmptyRequest), prev_response |-> None, seen_ids |-> {}]

\* _get_state of the second cursor
OtherState == <<other.request, other.prev_response, other.seen_ids>>

\* Mutant of SetState: the cursor keeps its own seen_ids.
SetStateKeepsSeen(state) ==
    /\ request' = state[1]
    /\ prev_response' = state[2]
    /\ seen_ids' = seen_ids

\* _set_state
SetState(state) ==
    /\ request' = state[1]
    /\ prev_response' = state[2]
    /\ seen_ids' = state[3]

\* cursor.inject(second): `self._set_state(injection._get_state())`. The
\* tuple holds the objects of the second cursor themselves: from now on
\* both cursors hold one set object as _seen_ids.
Inject ==
    /\ pc = "idle"
    /\ injects < MaxInjects
    /\ injects' = injects + 1
    /\ SetState(OtherState)
    /\ shared' = TRUE
    /\ inj' = Some(<<other.request, other.seen_ids>>)
    /\ UNCHANGED <<remote, tieDesc, pc, mode, response, byid_request, res,
                   start_state, finish_state, other>>
    /\ UNCHANGED <<histVars, pipelineVars, peerVars, envVars, callVars, waitVars, metricVars>>

\* second.inject(cursor): the same the other way round.
InjectInto ==
    /\ pc = "idle"
    /\ injects < MaxInjects
    /\ injects' = injects + 1
    /\ other' = [request |-> CursorState[1], prev_response |-> CursorState[2],
                 seen_ids |-> CursorState[3]]
    /\ shared' = TRUE
    /\ inj' = Some(<<request, seen_ids>>)
    /\ UNCHANGED <<cursorVars, histVars, pipelineVars, peerVars, envVars, callVars, waitVars, metricVars>>

\* cursor.inject(c) for a cursor c that holds copy.deepcopy of the state of
\* `cursor` itself.
InjectCopy ==
    /\ pc = "idle"
    /\ injects < MaxInjects
    /\ injects' = injects + 1
    /\ SetState(DeepCopy(CursorState))
    /\ SeenRebound(seen_ids)
    /\ UNCHANGED <<remote, tieDesc, pc, mode, response, byid_request, res,
                   start_state, finish_state, inj>>
    /\ UNCHANGED <<histVars, pipelineVars, peerVars, envVars, callVars, waitVars, metricVars>>

\* The second cursor is given a saved snapshot of the state of the first:
\* a deep copy, as a checkpoint written and read back is.
Snapshot ==
    /\ pc = "idle"
    /\ injects < MaxInjects
    /\ injects' = injects + 1
    /\ LET copy == DeepCopy(CursorState)
       IN other' = [request |-> copy[1], prev_response |-> copy[2],
                    seen_ids |-> copy[3]]
    /\ shared' = FALSE
    /\ inj' = None
    /\ UNCHANGED <<cursorVars, histVars, pipelineVars, peerVars, envVars, callVars, waitVars, metricVars>>

\* The caller goes on with a newly constructed cursor.
NewCursor ==
    /\ pc = "idle"
    /\ injects < MaxInjects
    /\ injects' = injects + 1
    /\ request' = FreshState.request
    /\ prev_response' = FreshState.prev_response
    /\ seen_ids' = FreshState.seen_ids
    /\ SeenRebound(seen_ids)
    /\ UNCHANGED <<remote, tieDesc, pc, mode, response, byid_request, res,
                   start_state, finish_state, inj>>
    /\ UNCHANGED <<histVars, pipelineVars, peerVars, envVars, callVars, waitVars, metricVars>>

\* The whole loop of _ByIdCursor.__iter__ as __iter__ consumes it.
RECURSIVE DrainById(_, _)
DrainById(breq, st) ==
    LET resp == fetcher(breq, "id")
        st1 == ProcessDrained(resp.items, st)
    IN IF resp.has_more THEN DrainById(ByIdNext(breq, resp), st1) ELSE st1

\* A whole plain pass of __iter__ from the state `st` over the collection
\* as it is, at most `rounds` rounds of its loop: the state it ends with
\* and the events it yields.
RECURSIVE Pass(_, _)
Pass(st, rounds) ==
    LET resp == fetcher(st.request, "time")
    IN IF resp.items = <<>> \/ rounds = 0 THEN st
       ELSE LET max_time == Last(resp.items).t
                st1 == ProcessItems(resp.items, st)
            IN IF ~resp.has_more THEN st1
               ELSE IF WholePageSameTime(resp)
               THEN LET st2 == DrainById(FixedTimeRequest(st1.request, max_time), st1)
                    IN Pass([request  |-> AfterDrain(st2.request, max_time),
                             seen_ids |-> StripSeen(resp, st2.seen_ids),
                             out      |-> st2.out], rounds - 1)
               ELSE Pass([st1 EXCEPT !.seen_ids = StripSeen(resp, @)], rounds - 1)

PassFrom(state) ==
    Pass([request |-> state[1], seen_ids |-> state[3], out |-> <<>>], MaxItems + 1)

(***************************************************************************)
(* Pipeline                                                                *)
(***************************************************************************)
\* The observer objects of the model; the worker that wraps observer o is
\* called o as well.
Workers == 1..NumObservers
\* The values of observer._get_unique_key().
Keys == 1..NumObservers

\* _Worker._from_observer: the name of a worker is its observer's unique key.
Name(w) == obsKey[w]

\* id(observer): the identity of the object. Two objects that are alive
\* at the same time have different identities, and _observers keeps every
\* registered observer alive.
Id(o) == o

\* dict.values(), in insertion order
Values(d) == [k \in 1..Len(d) |-> d[k].value]

\* dict.keys(), in insertion order
DictKeys(d) == [k \in 1..Len(d) |-> d[k].key]

\* Mutant of DictSet: an assignment to a key the dict holds moves the entry
\* to the end.
DictSetMovesToEnd(d, k, v) ==
    Append(SelectSeq(d, LAMBDA en : en.key # k), [key |-> k, value |-> v])

\* `d[k] = v` of a dict: the entry of a key the dict holds gets the value
\* and stays where it is, a new key is appended.
DictSet(d, k, v) ==
    IF \E i \in 1..Len(d) : d[i].key = k
    THEN [i \in 1..Len(d) |-> IF d[i].key = k THEN [key |-> k, value |-> v] ELSE d[i]]
    ELSE Append(d, [key |-> k, value |-> v])

\* The dict _observers after register was called with each of `os` in turn.
RECURSIVE Registry(_)
Registry(os) ==
    IF os = <<>> THEN <<>>
    ELSE LET o == Last(os)
         IN DictSet(Registry(SubSeq(os, 1, Len(os) - 1)), Id(o), o)

\* Times are kept relative to datetime.now(): 0 is now, d > 0 is d seconds
\* ahead, d < 0 is -d seconds ago.
Now == 0

\* A dict keyed by workers is keyed by their names (_Worker.__hash__ and
\* __eq__): a function of the keys, None where the dict has no entry.
\* `pending = {worker: datetime.min for worker in workers}`
InitialPending ==
    [k \in Keys |-> IF \E w \in Workers : Name(w) = k
                    THEN Some(DATETIME_MIN_PY) ELSE None]

\* Mutant of InitialKeys: the dict is filled from the last observer to the first.
InitialKeysReversed ==
    [k \in 1..Len(observers) |-> Name(Values(observers)[Len(observers) + 1 - k])]

\* The keys of that dict in insertion order: the workers of the registered
\* observers, in the order of self._observers.values(); a worker that is
\* equal to one the dict holds adds no key.
InitialKeys ==
    LET names == [k \in 1..Len(observers) |-> Name(Values(observers)[k])]
        first == {k \in 1..Len(names) : \A j \in 1..(k - 1) : names[j] # names[k]}
    IN [i \in 1..Cardinality(first) |->
          names[CHOOSE k \in first : Cardinality({j \in first : j < k}) = i - 1]]

\* pending.values()
PendingTimes(d) == {Get(d[k]) : k \in {j \in Keys : d[j] # None}}

SetMax(S) == CHOOSE x \in S : \A y \in S : y <= x
SetMin(S) == CHOOSE x \in S : \A y \in S : x <= y
Max(a, b) == IF a >= b THEN a ELSE b

\* Mutant of NoOneShouldResume: the stop condition is never seen.
SomeoneAlwaysResumes(sr) == FALSE

\* Mutant of NoOneShouldResume: one worker that should not resume is enough.
SomeoneShouldNotResume(sr) == \E w \in Workers : ~sr[w]

\* _Worker._no_one_should_resume(workers)
NoOneShouldResume(sr) == \A w \in Workers : ~sr[w]

\* `observer_by_key = {worker.name: worker.observer for worker in workers}`:
\* the observer a key stands for is the last one of that name.
ObserverByKey(ws, k) == SetMax({w \in ws : Name(w) = k})

NoTask == [st |-> "none", start |-> DATETIME_MIN_PY]

\* What a step of run works on: its locals and the objects it changes.
Cur == [pending |-> pending, order |-> pending_keys, waiting |-> waiting,
        stored |-> stored,
        obs |-> obsState, lock |-> lock_held, log |-> ph.log,
        okSince |-> ph.okSince]

\* repr of the values a pipeline key is made of: a string in quotes, an
\* observer key by its digits.
Digits == <<"1", "2", "3", "4", "5", "6", "7", "8", "9">>

\* str of a tuple whose elements have the reprs `reprs`: a sequence of
\* pieces of text, "(a, b)" and "(a,)" and "()".
RECURSIVE Joined(_)
Joined(reprs) ==
    IF reprs = <<>> THEN <<>>
    ELSE IF Len(reprs) = 1 THEN reprs[1]
    ELSE reprs[1] \o <<", ">> \o Joined(Tail(reprs))

ReprTuple(reprs) ==
    <<"(">> \o Joined(reprs) \o (IF Len(reprs) = 1 THEN <<",">> ELSE <<>>) \o <<")">>

\* sorted(keys)
RECURSIVE Sorted(_)
Sorted(keys) ==
    IF keys = <<>> THEN <<>>
    ELSE LET m == CHOOSE i \in 1..Len(keys) :
                     /\ \A j \in 1..Len(keys) : keys[i] <= keys[j]
                     /\ \A j \in 1..(i - 1) : keys[j] # keys[i]
         IN <<keys[m]>> \o Sorted([j \in 1..(Len(keys) - 1) |->
                                     IF j < m THEN keys[j] ELSE keys[j + 1]])

\* Mutant of UniqueKeyOf: the observer keys are taken as registered.
UniqueKeyUnsorted(name, obs) ==
    [class |-> "Pipeline",
     name  |-> IF name = None \/ name = Some("") THEN "" ELSE Get(name),
     keys  |-> [k \in 1..Len(obs) |-> obsKey[Values(obs)[k]]]]

\* Pipeline._get_unique_key of a pipeline with the name `name` and the
\* dict of observers `obs`: (class name, name or '', sorted observer keys).
UniqueKeyOf(name, obs) ==
    [class |-> "Pipeline",
     name  |-> IF name = None \/ name = Some("") THEN "" ELSE Get(name),
     keys  |-> Sorted([k \in 1..Len(obs) |-> obsKey[Values(obs)[k]]])]

\* self._get_unique_key()
GetUniqueKey == UniqueKeyOf(p_name, observers)

\* str(key) of such a tuple.
str(key) ==
    ReprTuple(<<<<"'", key.class, "'">>, <<"'", key.name, "'">>,
                ReprTuple([k \in 1..Len(key.keys) |-> <<Digits[key.keys[k]]>>])>>)

\* An entry of the log: what run did, and the pipeline key it gave to the
\* storage with it.
Event(e, arg, ok) ==
    [ev |-> e, arg |-> arg, ok |-> ok,
     key |-> IF e = "start" THEN None ELSE pipeline_key]

\* Mutant of CanLock: the lock of the storage excludes nobody.
CanLockAlways == TRUE

\* `with self.storage.lock(key)` is entered only while no other holder of
\* the lock of that key is inside it; without a storage there is no lock.
CanLock == hasStorage => peer_pc # "locked"

\* Pipeline._lock: enter `with self.storage.lock(key)` if a storage is set.
Lock(s) ==
    IF hasStorage
    THEN [s EXCEPT !.lock = TRUE, !.log = Append(@, Event("lock", {}, {}))]
    ELSE s

\* Mutant of Unlock: the lock is kept when the with block is left.
KeepLock(s) == s

\* Pipeline._lock: the with block is left (normally, by return or by raise).
Unlock(s) ==
    IF hasStorage
    THEN [s EXCEPT !.lock = FALSE, !.log = Append(@, Event("unlock", {}, {}))]
    ELSE s

\* Mutant of StorageLoad: a state found is injected into the observer next
\* to the one of its key.
StorageLoadShifted(s) ==
    IF hasStorage
    THEN [s EXCEPT
            !.log = Append(@, Event("load", {}, {})),
            !.obs = [o \in Workers |->
                        LET from == Name((o % NumObservers) + 1)
                        IN IF s.stored[from] # None THEN Get(s.stored[from])
                           ELSE s.obs[o]]]
    ELSE s

\* Pipeline._storage_load: inject every state found into the observer of its key.
StorageLoad(s) ==
    IF hasStorage
    THEN [s EXCEPT
            !.log = Append(@, Event("load", {}, {})),
            !.obs = [o \in Workers |->
                        IF s.stored[Name(o)] # None /\ ObserverByKey(Workers, Name(o)) = o
                        THEN Get(s.stored[Name(o)])
                        ELSE s.obs[o]]]
    ELSE s

\* Mutant of StorageSave: the state of every worker is saved.
StorageSaveAll(s, dump) ==
    IF hasStorage
    THEN [s EXCEPT
            !.log = Append(@, Event("save", {Name(w) : w \in Workers}, s.okSince)),
            !.okSince = {},
            !.stored = [k \in Keys |-> Some(s.obs[ObserverByKey(Workers, k)])]]
    ELSE [s EXCEPT !.okSince = {}]

\* Pipeline._storage_save: storage.save(pipeline_key, {name: observer}).
StorageSave(s, dump) ==
    IF hasStorage
    THEN [s EXCEPT
            !.log = Append(@, Event("save", {Name(w) : w \in dump}, s.okSince)),
            !.okSince = {},
            !.stored = [k \in Keys |->
                          IF \E w \in dump : Name(w) = k
                          THEN Some(s.obs[ObserverByKey(dump, k)])
                          ELSE s.stored[k]]]
    ELSE [s EXCEPT !.okSince = {}]

\* Pipeline._storage_cleanup: storage.cleanup(pipeline_key, keys, lock); an
\* exception of the storage is logged and swallowed.
StorageCleanup(s, fails) ==
    IF hasStorage
    THEN [s EXCEPT
            !.log = Append(@, Event("cleanup", {Name(w) : w \in Workers}, {})),
            !.stored = IF fails THEN s.stored
                       ELSE [k \in Keys |->
                               IF k \in {Name(w) : w \in Workers} THEN None
                               ELSE s.stored[k]]]
    ELSE s

\* `errored` of _process_done_tasks: the done tasks with an exception.
Errored(done) == {w \in done : task[w].st = "error"}

\* The orders in which `for task in done` can go through the set done.
Orders(S) == {f \in [1..Cardinality(S) -> S] : Range(f) = S}

\* Mutant of ProcessDoneTasks: a worker is rescheduled a period after its
\* task was processed.
ProcessDoneTasksFromNow(s, done) ==
    LET errored == Errored(Range(done))
        dump_list == SelectSeq(done, LAMBDA w : w \notin errored)
        workers_to_dump == Range(dump_list)
        names == [i \in 1..Len(dump_list) |-> Name(dump_list[i])]
        s1 == [s EXCEPT
                 !.waiting = @ \ Range(done),
                 !.pending = [k \in Keys |->
                     IF \E w \in workers_to_dump : Name(w) = k
                     THEN Some(Now + Period)
                     ELSE s.pending[k]],
                 !.order = @ \o SelectSeq(names, LAMBDA k : k \notin Range(s.order))]
    IN [s |-> StorageSave(s1, workers_to_dump), errored |-> errored]

\* Pipeline._process_done_tasks(pipeline_key, done, waiting, pending), with
\* `done` in the order in which the loop goes through it: the step state
\* after it, and the tasks whose exceptions it raises. A key that enters
\* `pending` goes to the end of the dict.
ProcessDoneTasks(s, done) ==
    LET errored == Errored(Range(done))
        dump_list == SelectSeq(done, LAMBDA w : w \notin errored)
        workers_to_dump == Range(dump_list)
        names == [i \in 1..Len(dump_list) |-> Name(dump_list[i])]
        s1 == [s EXCEPT
                 !.waiting = @ \ Range(done),
                 !.pending = [k \in Keys |->
                     IF \E w \in workers_to_dump : Name(w) = k
                     THEN Some(task[CHOOSE w \in workers_to_dump : Name(w) = k].start
                               + Period)
                     ELSE s.pending[k]],
                 !.order = @ \o SelectSeq(names, LAMBDA k : k \notin Range(s.order))]
    IN [s |-> StorageSave(s1, workers_to_dump), errored |-> errored]

\* Mutant of ComplexException: only one of the exceptions is kept.
FirstException(errored) == {SetMin(errored)}

\* `ComplexException([task.exception() for task in errored])`
ComplexException(errored) == errored

\* Mutant of DoneTasks: a wait hands back every task, done or not.
AllWaiting == waiting

\* The tasks in waiting that are done.
DoneTasks == {w \in waiting : task[w].st \in {"ok", "error"}}

\* `asyncio.wait(waiting.values(), return_when=...)` can return.
WaitOver(return_when) ==
    IF return_when = "ALL_COMPLETED" THEN DoneTasks = waiting ELSE DoneTasks # {}

\* Mutant of SleepTime: the sleep has no lower bound.
SleepTimeNoFloor(start_soon) == start_soon - Now

\* `sleep_time = max((start_soon - now).total_seconds(), MIN_SLEEP_SECONDS)`
SleepTime(start_soon) == Max(start_soon - Now, MIN_SLEEP_SECONDS)

\* The assignment of the variables a step state stands for; a task that
\* left waiting is referenced no more.
Store(s) ==
    /\ task' = [w \in Workers |->
                  IF w \in waiting \ s.waiting THEN NoTask ELSE task[w]]
    /\ pending' = s.pending
    /\ pending_keys' = s.order
    /\ waiting' = s.waiting
    /\ stored' = s.stored
    /\ obsState' = s.obs
    /\ lock_held' = s.lock

\* The history of a wait that returned with the set done.
WaitHistory(s, quiet) ==
    [ph EXCEPT !.log = s.log,
               !.okSince = s.okSince,
               !.quietEnd = quiet,
               !.doneOk = {w \in DoneTasks : task[w].st = "ok"},
               !.reported = @ \cup {w \in DoneTasks : task[w].st = "ok"},
               !.doneErr = {w \in DoneTasks : task[w].st = "error"}]

\* Mutant of Raise: the storage is cleaned up before the error is raised.
RaiseCleansUp(r) ==
    LET s == Unlock(StorageCleanup(r.s, FALSE))
    IN /\ Store(s)
       /\ p_pc' = "raised"
       /\ excs' = ComplexException(r.errored)
       /\ ph' = WaitHistory(s, FALSE)
       /\ UNCHANGED <<check_mode, sleep_left>>

\* run raises ComplexException out of the with block.
Raise(r) ==
    LET s == Unlock(r.s)
    IN /\ Store(s)
       /\ p_pc' = "raised"
       /\ excs' = ComplexException(r.errored)
       /\ ph' = WaitHistory(s, FALSE)
       /\ UNCHANGED <<check_mode, sleep_left>>

\* run cleans the storage up and returns.
Finish(r, fails) ==
    LET s == Unlock(StorageCleanup(r.s, fails))
    IN /\ Store(s)
       /\ p_pc' = "returned"
       /\ ph' = [WaitHistory(s, TRUE) EXCEPT !.cleanupRaised = hasStorage /\ fails]
       /\ UNCHANGED <<check_mode, sleep_left, excs>>

\* run leaves the with block and sleeps.
GoSleep(s0, cm, start_soon) ==
    LET s == Unlock(s0)
    IN /\ Store(s)
       /\ p_pc' = "sleep"
       /\ check_mode' = cm
       /\ sleep_left' = SleepTime(start_soon)
       /\ ph' = [WaitHistory(s, (\A w \in Workers : ~should_resume[w]) /\ s.waiting = {})
                   EXCEPT !.slept = 0]
       /\ UNCHANGED excs

\* run waits for the tasks still in flight.
WaitRest(s) ==
    /\ Store(s)
    /\ p_pc' = "wait_rest"
    /\ ph' = WaitHistory(s, FALSE)
    /\ UNCHANGED <<check_mode, sleep_left, excs>>

\* The worker that is the key `k` of a dict of run: a dict keeps the key
\* object it got first, the first worker of that name in `workers`.
WorkerOf(k) ==
    LET workers == Values(observers)
    IN workers[SetMin({j \in 1..Len(workers) : Name(workers[j]) = k})]

\* The head of an iteration of run, up to its `await asyncio.wait(...)`:
\* take the lock, load the checkpoint in iteration 1, start the due workers.
BeginIteration ==
    /\ p_pc = "start" \/ (p_pc = "sleep" /\ sleep_left <= 0)
    /\ spent < MaxIter
    /\ CanLock
    /\ LET s0 == Lock([Cur EXCEPT !.log = <<>>])
           s1 == IF iteration + 1 = 1 THEN StorageLoad(s0) ELSE s0
           iteration_start == Now
           due == {k \in Keys : /\ s1.pending[k] # None
                                /\ Get(s1.pending[k]) <= iteration_start \/ check_mode}
           due_keys == SelectSeq(s1.order, LAMBDA k : k \in due)
           to_start == [i \in 1..Len(due_keys) |-> WorkerOf(due_keys[i])]
           starting == Range(to_start)
           s2 == [s1 EXCEPT
                    !.pending = [k \in Keys |-> IF k \in due THEN None ELSE s1.pending[k]],
                    !.order = SelectSeq(@, LAMBDA k : k \notin due),
                    !.waiting = @ \cup starting,
                    !.log = IF to_start = <<>> THEN @
                            ELSE Append(@, Event("start", starting, {}))]
           h == [ph EXCEPT !.iterCheck = check_mode,
                           !.prevQuiet = ph.quietEnd,
                           !.started = starting,
                           !.startOrder = to_start,
                           !.prevStart = ph.lastStart,
                           !.lastStart = [w \in Workers |->
                                            IF w \in starting THEN iteration + 1 ELSE @[w]],
                           !.prevReported = ph.reported,
                           !.reported = {},
                           !.doneOk = {}, !.doneErr = {},
                           !.storedBefore = stored,
                           !.injected = IF iteration = 0 THEN s1.obs ELSE ph.injected]
       IN /\ iteration' = iteration + 1
          /\ spent' = spent + 1
          /\ IF starting \cap waiting # {}
             THEN \* `assert worker not in waiting` fails
                  /\ Store(Unlock(s1))
                  /\ p_pc' = "assertion_error"
                  /\ ph' = [h EXCEPT !.log = Unlock(s1).log, !.started = {},
                                      !.startOrder = <<>>, !.lastStart = ph.lastStart]
             ELSE IF s2.waiting = {}
             THEN \* asyncio.wait of an empty set raises ValueError
                  /\ Store(Unlock(s2))
                  /\ p_pc' = "value_error"
                  /\ ph' = [h EXCEPT !.log = Unlock(s2).log]
             ELSE /\ pending' = s2.pending
                  /\ pending_keys' = s2.order
                  /\ waiting' = s2.waiting
                  /\ stored' = s2.stored
                  /\ obsState' = s2.obs
                  /\ lock_held' = s2.lock
                  /\ task' = [w \in Workers |->
                                IF w \in starting
                                THEN [st |-> "running", start |-> iteration_start]
                                ELSE task[w]]
                  /\ p_pc' = "wait"
                  /\ ph' = [h EXCEPT !.log = s2.log]
    /\ UNCHANGED <<obsKey, p_name, pipeline_key, hasStorage, check_mode, should_resume, sleep_left, excs, runs>>
    /\ UNCHANGED <<cursorVars, histVars, peerVars, injectVars, envVars, callVars, waitVars, metricVars>>

\* _Worker.__call__ ends: the observer was called and should_resume() asked.
ObserverDone ==
    /\ p_pc \in {"wait", "wait_rest", "sleep"}
    /\ \E w \in Workers, r \in BOOLEAN :
        /\ task[w].st = "running"
        /\ task' = [task EXCEPT ![w].st = "ok"]
        /\ should_resume' = [should_resume EXCEPT ![w] = r]
        /\ obsState' = [obsState EXCEPT ![w] = @ + 1]
        /\ ph' = [ph EXCEPT !.okSince = @ \cup {w}]
    /\ UNCHANGED <<obsKey, p_name, pipeline_key, hasStorage, p_pc, iteration, check_mode, pending,
                   pending_keys, waiting, stored, lock_held, sleep_left, excs, runs,
                   spent>>
    /\ UNCHANGED <<cursorVars, histVars, peerVars, injectVars, envVars, callVars, waitVars, metricVars>>

\* The observers run out of work.
GoQuiet ==
    /\ ~no_work
    /\ p_pc \in {"start", "wait", "wait_rest", "sleep"}
    /\ no_work' = TRUE
    /\ UNCHANGED <<cursorVars, histVars, pipelineVars, peerVars, injectVars, observers,
                   callVars, waitVars, metricVars>>

\* _Worker.__call__ returns, with should_resume() false once the observers
\* have run out of work.
ObserverReports ==
    /\ ObserverDone
    /\ no_work => \A w \in Workers :
                  (task[w].st = "running" /\ task'[w].st = "ok") => ~should_resume'[w]

\* The call of worker w completes.
CallCompletes(w) ==
    ObserverReports /\ task[w].st = "running" /\ task'[w].st = "ok"

\* _Worker.__call__ raises: the observer call failed, maybe after it
\* changed the state of the observer.
ObserverRaise ==
    /\ p_pc \in {"wait", "wait_rest", "sleep"}
    /\ \E w \in Workers, progress \in BOOLEAN :
        /\ task[w].st = "running"
        /\ task' = [task EXCEPT ![w].st = "error"]
        /\ obsState' = [obsState EXCEPT ![w] = IF progress THEN @ + 1 ELSE @]
    /\ UNCHANGED <<obsKey, p_name, pipeline_key, hasStorage, p_pc, iteration, check_mode, pending,
                   pending_keys, waiting, should_resume, stored, lock_held, sleep_left,
                   excs, runs, spent, ph>>
    /\ UNCHANGED <<cursorVars, histVars, peerVars, injectVars, envVars, callVars, waitVars, metricVars>>

\* `await asyncio.wait(...)` of line 248 returns; run goes on to its next
\* await, its return or its raise.
WaitReturns ==
    /\ p_pc = "wait"
    /\ WaitOver(IF check_mode THEN "ALL_COMPLETED" ELSE "FIRST_COMPLETED")
    /\ \E fails \in BOOLEAN, done \in Orders(DoneTasks) :
        LET r == ProcessDoneTasks(Cur, done)
        IN IF r.errored # {}
           THEN Raise(r)
           ELSE IF NoOneShouldResume(should_resume)
           THEN IF check_mode
                THEN Finish(r, fails)
                ELSE IF r.s.waiting # {}
                THEN WaitRest(r.s)
                ELSE \* done = set(); nobody can have changed should_resume
                     LET r2 == ProcessDoneTasks(r.s, <<>>)
                     IN GoSleep(r2.s, TRUE, SetMax(PendingTimes(r2.s.pending)))
           ELSE GoSleep(r.s, FALSE, SetMin(PendingTimes(r.s.pending)))
    /\ UNCHANGED <<obsKey, p_name, pipeline_key, hasStorage, iteration, should_resume, runs, spent>>
    /\ UNCHANGED <<cursorVars, histVars, peerVars, injectVars, envVars, callVars, waitVars, metricVars>>

\* `await asyncio.wait(..., ALL_COMPLETED)` of line 259 returns.
WaitRestReturns ==
    /\ p_pc = "wait_rest"
    /\ WaitOver("ALL_COMPLETED")
    /\ \E done \in Orders(DoneTasks) :
       LET r == ProcessDoneTasks(Cur, done)
       IN IF r.errored # {}
          THEN Raise(r)
          ELSE GoSleep(r.s,
                       IF NoOneShouldResume(should_resume) THEN TRUE ELSE check_mode,
                       SetMax(PendingTimes(r.s.pending)))
    /\ UNCHANGED <<obsKey, p_name, pipeline_key, hasStorage, iteration, should_resume, runs, spent>>
    /\ UNCHANGED <<cursorVars, histVars, peerVars, injectVars, envVars, callVars, waitVars, metricVars>>

\* The times of the model after MIN_SLEEP_SECONDS more seconds. A time
\* `floor` or more seconds ago stays at -floor: the program tells no two
\* such times apart.
Later(t, floor) == Max(t - MIN_SLEEP_SECONDS, 0 - floor)

\* A duration of the history after MIN_SLEEP_SECONDS more seconds: the
\* history tells MIN_SLEEP_SECONDS or more from less.
Passed(d) == Min(d + MIN_SLEEP_SECONDS, MIN_SLEEP_SECONDS)

\* Time passes while run is suspended.
Tick ==
    /\ p_pc \in {"wait", "wait_rest", "sleep"}
    /\ pending' = [k \in Keys |->
                     IF pending[k] = None THEN None
                     ELSE Some(Later(Get(pending[k]), 0))]
    /\ task' = [w \in Workers |->
                  IF task[w].st = "none" THEN task[w]
                  ELSE [task[w] EXCEPT !.start = Later(@, Period)]]
    /\ sleep_left' = Later(sleep_left, 0)
    /\ ph' = [ph EXCEPT
                 !.slept = IF p_pc = "sleep" THEN Passed(@) ELSE @,
                 !.elapsed = Passed(@)]
    /\ UNCHANGED <<obsKey, p_name, pipeline_key, hasStorage, p_pc, iteration, check_mode, pending_keys,
                   waiting, should_resume, obsState, stored, lock_held, excs, runs,
                   spent>>
    /\ UNCHANGED <<cursorVars, histVars, peerVars, injectVars, envVars, callVars, waitVars, metricVars>>

NoHistory ==
    [log |-> <<>>, okSince |-> {}, quietEnd |-> FALSE, prevQuiet |-> FALSE,
     iterCheck |-> FALSE, started |-> {}, doneOk |-> {}, doneErr |-> {},
     reported |-> {}, prevReported |-> {},
     storedBefore |-> [k \in Keys |-> None], injected |-> [w \in Workers |-> 0],
     storedAtStart |-> [k \in Keys |-> None],
     slept |-> 0, elapsed |-> 0, cleanupRaised |-> FALSE,
     startOrder |-> <<>>, lastStart |-> [w \in Workers |-> 0],
     prevStart |-> [w \in Workers |-> 0]]

\* A process that constructs the pipeline, registers fresh observers and
\* calls run: the state of run before its first iteration.
NewRun ==
    /\ p_pc' = "start"
    /\ pipeline_key' = Some(str(GetUniqueKey))
    /\ iteration' = 0
    /\ check_mode' = FALSE
    /\ pending' = InitialPending
    /\ pending_keys' = InitialKeys
    /\ waiting' = {}
    /\ task' = [w \in Workers |-> NoTask]
    /\ should_resume' = [w \in Workers |-> FALSE]
    /\ obsState' = [w \in Workers |-> 0]
    /\ lock_held' = FALSE
    /\ sleep_left' = 0
    /\ excs' = {}

\* The process is started again after run raised; the storage is kept.
Restart ==
    /\ p_pc = "raised"
    /\ runs < MaxRuns
    /\ runs' = runs + 1
    /\ NewRun
    /\ ph' = [NoHistory EXCEPT !.storedAtStart = stored]
    /\ UNCHANGED <<obsKey, p_name, hasStorage, stored, spent>>
    /\ UNCHANGED <<cursorVars, histVars, peerVars, injectVars, envVars, callVars, waitVars, metricVars>>

\* The second instance enters the locked part of an iteration of its run.
PeerBegin ==
    /\ peer_pc = "out"
    /\ hasStorage => ~lock_held
    /\ peer_pc' = "locked"
    /\ UNCHANGED <<cursorVars, histVars, pipelineVars, injectVars, envVars, callVars, waitVars, metricVars>>

\* The second instance leaves the locked part: to its sleep, by return or
\* by an exception.
PeerEnd ==
    /\ peer_pc = "locked"
    /\ peer_pc' = "out"
    /\ UNCHANGED <<cursorVars, histVars, pipelineVars, injectVars, envVars, callVars, waitVars, metricVars>>

\* There is no second instance.
NoPeer == peer_pc = "none"

\* Pipeline.register(observer): store the observer under its identity and
\* return it.
Register ==
    /\ p_pc = "new"
    /\ Len(reg.calls) < MaxRegisters
    /\ \E observer \in Workers :
        /\ observers' = DictSet(observers, Id(observer), observer)
        /\ reg' = [calls |-> Append(reg.calls, observer), ret |-> Some(observer)]
    /\ UNCHANGED <<cursorVars, histVars, pipelineVars, peerVars, injectVars, no_work,
                   caller_request, supplied, waitVars, metricVars, ended, failed, passLog>>

\* Mutant of RaiseNoObservers: the check for observers comes inside the
\* with block of the lock.
RaiseNoObserversLocked(s) == Unlock(Lock(s))

\* `if not self._observers: raise ValueError(...)`, the first statement of
\* run: nothing has been done when it raises.
RaiseNoObservers(s) == s

\* run is called. The iterations are modelled for a pipeline with all of
\* its NumObservers observers registered.
RunCalled ==
    /\ p_pc = "new"
    /\ IF observers = <<>>
       THEN LET s == RaiseNoObservers([Cur EXCEPT !.log = <<>>])
            IN /\ Store(s)
               /\ p_pc' = "no_observers"
               /\ ph' = [ph EXCEPT !.log = s.log]
               /\ UNCHANGED pipeline_key
       ELSE /\ Range(Values(observers)) = Workers
            /\ p_pc' = "start"
            /\ pipeline_key' = Some(str(GetUniqueKey))
            /\ pending_keys' = InitialKeys
            /\ UNCHANGED <<pending, waiting, task, stored, obsState, lock_held, ph>>
    /\ UNCHANGED <<obsKey, p_name, hasStorage, iteration, check_mode, should_resume,
                   sleep_left, excs, runs, spent>>
    /\ UNCHANGED <<cursorVars, histVars, peerVars, injectVars, envVars, callVars, waitVars, metricVars>>

\* The task that drives run is cancelled at its await: CancelledError
\* leaves run through the with block if run is inside it. run has no
\* handler for it and touches no task.
Cancel ==
    /\ p_pc \in {"wait", "wait_rest", "sleep"}
    /\ LET s == IF p_pc = "sleep" THEN Cur ELSE Unlock(Cur)
       IN /\ Store(s)
          /\ ph' = [ph EXCEPT !.log = s.log]
    /\ p_pc' = "cancelled"
    /\ UNCHANGED <<obsKey, p_name, pipeline_key, hasStorage, iteration, check_mode, should_resume,
                   sleep_left, excs, runs, spent>>
    /\ UNCHANGED <<cursorVars, histVars, peerVars, injectVars, envVars, callVars, waitVars, metricVars>>

\* register has not been called.
NoCalls == [calls |-> <<>>, ret |-> None]

\* No pipeline runs: the state of the pipeline in the specifications of the cursor.
NoPipeline ==
    /\ NoPeer
    /\ observers = <<>>
    /\ reg = NoCalls
    /\ no_work = FALSE
    /\ obsKey = [w \in Workers |-> w]
    /\ p_name = None
    /\ pipeline_key = None
    /\ hasStorage = FALSE
    /\ p_pc = "none"
    /\ iteration = 0
    /\ check_mode = FALSE
    /\ pending = [k \in Keys |-> None]
    /\ pending_keys = <<>>
    /\ waiting = {}
    /\ task = [w \in Workers |-> NoTask]
    /\ should_resume = [w \in Workers |-> FALSE]
    /\ obsState = [w \in Workers |-> 0]
    /\ stored = [k \in Keys |-> None]
    /\ lock_held = FALSE
    /\ sleep_left = 0
    /\ excs = {}
    /\ runs = 0
    /\ spent = 0
    /\ ph = NoHistory

(***************************************************************************)
(* AsyncTolokaClient.wait_operation                                        *)
(***************************************************************************)
\* wait_operation is not called.
NoWait ==
    /\ w_pc = "idle"
    /\ utcnow = 0
    /\ op = [completed |-> FALSE, started |-> None]
    /\ server_completed = FALSE
    /\ wait_until_time = None
    /\ timeout = 0
    /\ wh = [given |-> None, called_at |-> 0, polls |-> 0, result |-> None]

\* Mutant of DeadlinePassed: the deadline itself counts as passed.
DeadlineReached(now, until) == now >= until

\* `datetime.datetime.utcnow() > wait_until_time`
DeadlinePassed(now, until) == now > until

\* wait_operation(op, timeout) up to its first await or its return.
WaitOperation ==
    /\ w_pc = "called"
    /\ IF op.completed
       THEN /\ w_pc' = "returned"
            /\ wh' = [wh EXCEPT !.result = Some(op)]
            /\ UNCHANGED wait_until_time
       ELSE /\ wait_until_time' = Some(utcnow + timeout)
            /\ w_pc' = IF \/ op.started = None
                          \/ utcnow - Get(op.started) < default_initial_delay
                       THEN "initial_delay" ELSE "get_operation"
            /\ UNCHANGED wh
    /\ UNCHANGED <<utcnow, op, server_completed, timeout>>
    /\ UNCHANGED <<cursorVars, histVars, pipelineVars, peerVars, injectVars, envVars,
                   callVars, metricVars>>

\* `await asyncio.sleep(default_initial_delay.total_seconds())` is over.
InitialDelayEnds ==
    /\ w_pc = "initial_delay"
    /\ \E over \in 0..MaxLate : utcnow' = utcnow + default_initial_delay + over
    /\ w_pc' = "get_operation"
    /\ UNCHANGED <<op, server_completed, wait_until_time, timeout, wh>>
    /\ UNCHANGED <<cursorVars, histVars, pipelineVars, peerVars, injectVars, envVars,
                   callVars, metricVars>>

\* `op = await self.get_operation(op.id)` and the check that follows it.
GetOperation ==
    /\ w_pc = "get_operation"
    /\ \E took \in 0..MaxLate : utcnow' = utcnow + took
    /\ op' = [op EXCEPT !.completed = server_completed]
    /\ IF server_completed
       THEN /\ w_pc' = "returned"
            /\ wh' = [wh EXCEPT !.polls = @ + 1, !.result = Some(op')]
       ELSE /\ w_pc' = "time_to_wait"
            /\ wh' = [wh EXCEPT !.polls = @ + 1]
    /\ UNCHANGED <<server_completed, wait_until_time, timeout>>
    /\ UNCHANGED <<cursorVars, histVars, pipelineVars, peerVars, injectVars, envVars,
                   callVars, metricVars>>

\* `await asyncio.sleep(default_time_to_wait.total_seconds())` is over and
\* the deadline is checked.
TimeToWaitEnds ==
    /\ w_pc = "time_to_wait"
    /\ \E over \in 0..MaxLate : utcnow' = utcnow + default_time_to_wait + over
    /\ w_pc' = IF DeadlinePassed(utcnow', Get(wait_until_time))
               THEN "timeout" ELSE "get_operation"
    /\ UNCHANGED <<op, server_completed, wait_until_time, timeout, wh>>
    /\ UNCHANGED <<cursorVars, histVars, pipelineVars, peerVars, injectVars, envVars,
                   callVars, metricVars>>

\* The server completes the operation while the call waits.
OperationCompletes ==
    /\ w_pc \in {"initial_delay", "get_operation", "time_to_wait"}
    /\ ~server_completed
    /\ server_completed' = TRUE
    /\ UNCHANGED <<w_pc, utcnow, op, wait_until_time, timeout, wh>>
    /\ UNCHANGED <<cursorVars, histVars, pipelineVars, peerVars, injectVars, envVars,
                   callVars, metricVars>>

\* wait_operation is called with an operation, completed or not, started or
\* not, and a timeout.
InitWait ==
    /\ w_pc = "called"
    /\ utcnow = default_time_to_wait
    /\ op \in [completed : BOOLEAN, started : {None} \cup {Some(s) : s \in 0..utcnow}]
    /\ server_completed \in BOOLEAN
    /\ op.completed => server_completed
    /\ wait_until_time = None
    /\ timeout \in 0..MaxTimeout
    /\ wh = [given |-> Some(op), called_at |-> utcnow, polls |-> 0, result |-> None]

NextWait ==
    WaitOperation \/ InitialDelayEnds \/ GetOperation \/ TimeToWaitEnds
        \/ OperationCompletes

(***************************************************************************)
(* AssignmentEventsInPool._get_lines_impl                                  *)
(***************************************************************************)
\* No metric is asked for its lines.
NoMetric ==
    /\ m_pc = "idle"
    /\ join_events = FALSE
    /\ event_lists = <<>>
    /\ result = <<>>

\* The metric names of self._cursors, in the order of _status_dict.
MetricNames == <<"submitted_events_in_pool", "accepted_events_in_pool">>

\* itertools.groupby(event_list, attrgetter('event_time')) with the count of
\* each group: `acc` holds the points of the events before `events`.
RECURSIVE groupby(_, _)
groupby(events, acc) ==
    IF events = <<>> THEN acc
    ELSE IF acc # <<>> /\ acc[Len(acc)][1] = Head(events)
         THEN groupby(Tail(events),
                      [acc EXCEPT ![Len(acc)] = <<@[1], @[2] + 1>>])
         ELSE groupby(Tail(events), Append(acc, <<Head(events), 1>>))

\* The body of the loop for one metric name: the points it stores, or the
\* exception it raises. With join_events the name `event` is bound to None
\* in the function; the generator expression that counts has a scope of its
\* own, so `event.event_time` is read from None when count is not 0.
LinesOf(events, join, now) ==
    IF join
    THEN IF Len(events) # 0
         THEN [raised |-> Some("AttributeError"), points |-> <<>>]
         ELSE [raised |-> None, points |-> << <<now, 0>> >>]
    ELSE [raised |-> None, points |-> groupby(events, <<>>)]

\* _get_lines_impl, one iteration of its loop over self._cursors: the
\* cursor of the next metric name is drained and its points are stored;
\* the result is returned after the last name.
GetLinesImpl ==
    /\ m_pc = "called"
    /\ \E name \in {MetricNames[Len(result) + 1]} :
       \E l \in {LinesOf(event_lists[name], join_events, utcnow)} :
          IF l.raised # None
          THEN /\ m_pc' = "raised"
               /\ UNCHANGED result
          ELSE /\ result' = Append(result, l.points)
               /\ m_pc' = IF Len(result') = Len(MetricNames)
                          THEN "returned" ELSE "called"
    /\ UNCHANGED <<join_events, event_lists>>
    /\ UNCHANGED <<cursorVars, histVars, pipelineVars, peerVars, injectVars, envVars,
                   callVars, waitVars>>

\* The event times a cursor may yield in one call: in the order of the
\* fetch, oldest first.
EventLists ==
    {s \in UNION {[1..n -> 1..MaxTime] : n \in 0..MaxEvents} :
        \A k \in 1..Len(s) - 1 : s[k] <= s[k + 1]}

\* _get_lines_impl is called on a metric with or without join_events.
InitMetrics ==
    /\ m_pc = "called"
    /\ join_events \in BOOLEAN
    /\ event_lists \in [{MetricNames[k] : k \in 1..Len(MetricNames)} -> EventLists]
    /\ result = <<>>

(***************************************************************************)
(* Specifications of the cursor.                                           *)
(***************************************************************************)
\* A cursor over one of the collections `rs` that is given one of the
\* requests `reqs`: under construction (at = "new") or constructed.
InitCursorVars(m, rs, reqs, at) ==
    /\ remote \in rs
    /\ caller_request \in reqs
    /\ supplied = caller_request
    /\ ended = "none"
    /\ failed = {}
    /\ passLog = NewLog(None)
    /\ request = IF at = "new" THEN caller_request ELSE NewRequest(caller_request)
    /\ pc = at
    /\ other = FreshState
    /\ shared = FALSE
    /\ inj = None
    /\ injects = 0
    /\ tieDesc \in BOOLEAN
    /\ prev_response = None
    /\ seen_ids = {}
    /\ mode = m
    /\ response = None
    /\ byid_request = None
    /\ res = <<>>
    /\ start_state = None
    /\ finish_state = None
    /\ yielded = <<>>
    /\ late = {}
    /\ added = {}
    /\ addedOk = TRUE
    /\ passAdded = {}
    /\ passOk = TRUE
    /\ entry = <<>>
    /\ lastExit = "none"
    /\ committed = {}
    /\ dropped = {}
    /\ prevRes = None

\* The same, in a program that calls neither wait_operation nor a metric.
InitCursorWith(m, rs, reqs, at) ==
    /\ NoWait
    /\ NoMetric
    /\ InitCursorVars(m, rs, reqs, at)

\* A newly constructed cursor over one of the collections `rs`, made with
\* an empty request.
InitCursorOver(m, rs) == InitCursorWith(m, rs, {EmptyRequest}, "idle")

\* A newly constructed cursor over an empty collection.
InitCursor(m) == InitCursorOver(m, {{}})

\* Plain passes, each run to completion, against a fetcher that does not fail.
NextIter == AddItem \/ StartIter \/ FetchPage \/ FetchById

InitIter == InitCursor("iter") /\ NoPipeline

SpecIter == InitIter /\ [][NextIter]_vars

\* The same passes with a caller that consumes each pass to its end: the
\* generator, once resumed, runs to its next fetch, and the fetcher answers.
SpecIterLive == SpecIter /\ WF_vars(FetchPage) /\ WF_vars(FetchById)

\* try_fetch_all scopes, with a fetcher that may fail and a body that may raise.
NextFetchAll ==
    AddItem \/ Enter \/ FetchPage \/ FetchById \/ FetchRaise \/ BodyExit \/ BodyRaise

InitFetchAll == InitCursor("fetch_all") /\ NoPipeline

SpecFetchAll == InitFetchAll /\ [][NextFetchAll]_vars

\* The collections of items with distinct ids.
Collections ==
    {S \in SUBSET [id : Ids, t : Times] : \A a, b \in S : a.id = b.id => a = b}


\* Plain passes over a collection that does not change, of a cursor that is
\* injected from and into a second one.
NextInject ==
    StartIter \/ FetchPage \/ FetchById
        \/ Inject \/ InjectInto \/ InjectCopy \/ Snapshot \/ NewCursor

InitInject == InitCursorOver("iter", Collections) /\ NoPipeline

SpecInject == InitInject /\ [][NextInject]_vars

\* Every use one caller makes of a cursor over a collection that does not
\* change: plain passes and try_fetch_all scopes, against a fetcher that
\* may fail.
NextCursor ==
    StartIter \/ Enter \/ FetchPage \/ FetchById \/ FetchRaise \/ BodyExit \/ BodyRaise

InitAnyCursor == InitCursorOver("iter", Collections) /\ NoPipeline

SpecCursor == InitAnyCursor /\ [][NextCursor]_vars

\* One call of wait_operation, in a program that does nothing else.
InitWaitOnly ==
    /\ InitWait
    /\ NoMetric
    /\ NoPipeline
    /\ InitCursorVars("iter", {{}}, {EmptyRequest}, "idle")

SpecWait == InitWaitOnly /\ [][NextWait]_vars

\* One call of _get_lines_impl, in a program that does nothing else.
InitMetricsOnly ==
    /\ InitMetrics
    /\ NoWait
    /\ NoPipeline
    /\ InitCursorVars("iter", {{}}, {EmptyRequest}, "idle")

SpecMetrics == InitMetricsOnly /\ [][GetLinesImpl]_vars

\* Plain passes over a collection that does not change, against a fetcher
\* that may fail: a pass that raised is followed by the next pass.
NextRetry == StartIter \/ FetchPage \/ FetchById \/ FetchRaise

InitRetry == InitCursorOver("iter", Collections) /\ NoPipeline

SpecRetry == InitRetry /\ [][NextRetry]_vars

\* The requests a caller constructs a cursor with: with or without a lower
\* and an upper time bound.
CallerRequests ==
    {[gte |-> lo, gt |-> None, lte |-> hi, id_gt |-> None] :
        lo \in {None} \cup {Some(x) : x \in {DATETIME_MIN} \cup Times},
        hi \in {None} \cup {Some(x) : x \in Times}}

\* A cursor is constructed with a request of the caller and iterated over a
\* collection that does not change.
NextConstruct == PostInit \/ StartIter \/ FetchPage \/ FetchById

InitConstruct == InitCursorWith("iter", Collections, CallerRequests, "new") /\ NoPipeline

SpecConstruct == InitConstruct /\ [][NextConstruct]_vars

(***************************************************************************)
(* Specification of the pipeline.                                          *)
(***************************************************************************)
\* The keys of the registered observers: one key each.
UniqueKeys == {[w \in Workers |-> w]}

\* A pipeline constructed with one of the names `names`, after register
\* was called with each observer of `obs` in turn, over an empty storage,
\* with its run at `at`; the observers have one of the key maps `keys`.
InitRunWith(at, obs, keys, names) ==
    /\ obsKey \in keys
    /\ p_name \in names
    /\ observers = Registry(obs)
    /\ pipeline_key = IF at = "new" THEN None ELSE Some(str(GetUniqueKey))
    /\ reg = [calls |-> obs, ret |-> IF obs = <<>> THEN None ELSE Some(Last(obs))]
    /\ no_work = FALSE
    /\ p_pc = at
    /\ iteration = 0
    /\ check_mode = FALSE
    /\ pending = InitialPending
    /\ pending_keys = InitialKeys
    /\ waiting = {}
    /\ task = [w \in Workers |-> NoTask]
    /\ should_resume = [w \in Workers |-> FALSE]
    /\ obsState = [w \in Workers |-> 0]
    /\ stored = [k \in Keys |-> None]
    /\ lock_held = FALSE
    /\ sleep_left = 0
    /\ excs = {}
    /\ runs = 1
    /\ spent = 0
    /\ ph = NoHistory
    /\ InitCursor("iter")
    /\ tieDesc = FALSE

\* The same for a pipeline without a name whose observers have a key each.
InitRunAt(at, obs) == InitRunWith(at, obs, UniqueKeys, {None})

\* run is called on a pipeline whose observers are registered, over an
\* empty storage.
InitRun == InitRunAt("start", [k \in 1..NumObservers |-> k])

\* The names a pipeline is constructed with.
PipelineNames == {None, Some("a"), Some("b")}

\* The first process of a pipeline with any of the names, whose observers
\* were registered in any order, over an empty storage or without one.
InitKeyed ==
    /\ hasStorage \in BOOLEAN
    /\ \E obs \in Orders(Workers) : InitRunWith("start", obs, UniqueKeys, PipelineNames)
    /\ NoPeer

\* The first process of a pipeline whose observers, registered in any
\* order, have any keys: distinct observers may have equal keys.
InitAnyKeys ==
    /\ hasStorage \in BOOLEAN
    /\ \E obs \in Orders(Workers) : InitRunWith("start", obs, [Workers -> Keys], {None})
    /\ NoPeer

\* The first process of a pipeline over an empty storage, or without one.
InitPipeline ==
    /\ hasStorage \in BOOLEAN
    /\ InitRun
    /\ NoPeer

NextPipeline ==
    BeginIteration \/ ObserverDone \/ ObserverRaise \/ WaitReturns
        \/ WaitRestReturns \/ Tick \/ Restart

SpecPipeline == InitPipeline /\ [][NextPipeline]_vars

SpecKeyed == InitKeyed /\ [][NextPipeline]_vars
SpecAnyKeys == InitAnyKeys /\ [][NextPipeline]_vars

\* No observer raises, every observer call completes, and once the observers
\* have run out of work every call reports should_resume = false. The event
\* loop resumes run when its wait or its sleep is over, and time passes.
NextLive ==
    BeginIteration \/ ObserverReports \/ WaitReturns \/ WaitRestReturns
        \/ Tick \/ GoQuiet

SpecLive ==
    /\ InitPipeline
    /\ [][NextLive]_vars
    /\ WF_vars(BeginIteration)
    /\ \A w \in Workers : WF_vars(CallCompletes(w))
    /\ WF_vars(WaitReturns)
    /\ WF_vars(WaitRestReturns)
    /\ WF_vars(Tick)

\* A pipeline from its construction: observers are registered, run is
\* called, and the task that drives run may be cancelled.
InitNew ==
    /\ hasStorage \in BOOLEAN
    /\ InitRunAt("new", <<>>)
    /\ NoPeer

NextRun == Register \/ RunCalled \/ Cancel \/ NextPipeline

SpecRun == InitNew /\ [][NextRun]_vars

\* Two instances of the pipeline with one pipeline_key over one storage.
InitShared ==
    /\ hasStorage = TRUE
    /\ InitRun
    /\ peer_pc = "out"

NextShared == NextPipeline \/ PeerBegin \/ PeerEnd

SpecShared == InitShared /\ [][NextShared]_vars

(***************************************************************************)
(* Properties of the cursor.                                               *)
(***************************************************************************)
ItemsAt(t) == {it \in remote : it.t = t}

\* The position of id in the sequence of yielded ids (0: not yielded).
YieldPos(id) ==
    IF id \in Range(yielded)
    THEN CHOOSE k \in 1..Len(yielded) : yielded[k] = id
    ELSE 0

\* C1: over any sequence of plain passes, each run to completion, with
\* items added between the passes, no item id is yielded more than once.
C1_NoDuplicateYield ==
    \A j, k \in 1..Len(yielded) : j # k => yielded[j] # yielded[k]

\* C1 witness: a pass has ended that fetched a page holding an item
\* yielded by an earlier pass, skipped it and yielded the new ones, and
\* every item of the collection has been yielded.
C1_Witness ==
    /\ pc = "idle"
    /\ Len(yielded) = MaxItems
    /\ res # <<>>
    /\ prev_response # None
    /\ \E id \in IdsOf(Get(prev_response).items) :
          id \notin IdsOf(res) /\ id \in Range(yielded)

\* C2: a bucket of more items at one time t than a page holds is yielded
\* completely, each item once, before any item of a later time: every
\* item in front of the cursor comes before every yielded item of a later
\* time, and once the request has moved to T_gt = t every such item of time
\* at most t has been yielded.
C2_BucketBeforeLater ==
    /\ \A j, k \in 1..Len(yielded) : j # k => yielded[j] # yielded[k]
    /\ \A it \in remote : \A k \in 1..Len(yielded) :
          (it.id \notin late /\ TimeOf(yielded[k]) > it.t)
             => (YieldPos(it.id) > 0 /\ YieldPos(it.id) < k)
    /\ request.gt # None =>
          \A it \in remote :
             (it.id \notin late /\ it.t <= Get(request.gt)) => it.id \in Range(yielded)

\* C2 witness: one pass met a bucket larger than a page, drained it by id,
\* moved to T_gt = t and then yielded an item of a later time.
C2_Witness ==
    \E t \in Times :
        /\ Cardinality(ItemsAt(t)) > PageSize
        /\ late = {}
        /\ Len(res) = Len(yielded)
        /\ \A it \in ItemsAt(t) : it.id \in Range(yielded)
        /\ request.gt # None /\ Get(request.gt) >= t
        /\ \E k \in 1..Len(yielded) : TimeOf(yielded[k]) > t

\* C3: after a pass returned normally and items were added with a time not
\* earlier than the time of the last item yielded, the next pass yields
\* exactly the added items.
C3_NextPassYieldsAdded ==
    (pc = "idle" /\ mode = "iter" /\ passOk) => IdsOf(res) = passAdded

\* C4: when the body of a try_fetch_all scope raises, the cursor state is
\* the state at scope entry, and entering again returns the same events.
C4_RollbackOnRaise ==
    /\ (pc = "idle" /\ lastExit = "raise") => CursorState = entry
    /\ (pc = "body" /\ prevRes # None) => res = Get(prevRes)

\* C4 witness: a scope whose body raised had returned events collected
\* over several fetches, and the scope entered next returned them again.
C4_Witness ==
    /\ pc = "body"
    /\ prevRes # None
    /\ Len(res) > PageSize
    /\ Get(finish_state) # entry

\* C5: the buffer of try_fetch_all holds every yielded event; while the
\* body runs the cursor state is the state at entry; a normal exit makes
\* the post-iteration state the cursor state, and no later buffer holds an
\* event of a committed buffer.
C5_CommitOnNormalExit ==
    /\ pc = "body" => CursorState = entry
    /\ pc = "body" => IdsOf(res) \cap committed = {}
    /\ pc = "body" =>
          \A it \in remote :
             (it.id \notin committed /\ it.t > Get(entry[1].gte)) => it.id \in IdsOf(res)
    /\ (pc = "idle" /\ lastExit = "commit") => CursorState = Get(finish_state)

\* C5 witness: a scope returned a non-empty buffer after an earlier scope
\* had committed a non-empty buffer.
C5_Witness ==
    /\ pc = "body"
    /\ res # <<>>
    /\ committed # {}
    /\ Get(finish_state) # entry

\* C6: when the fetcher raises during the collection of try_fetch_all, the
\* cursor has not advanced, and the next scope that is entered returns every
\* item the failed entry had consumed.
C6_NoLossOnFetchFailure ==
    /\ (pc = "idle" /\ lastExit = "fail") => CursorState = entry
    /\ pc = "body" => dropped \subseteq IdsOf(res)


(***************************************************************************)
(* Properties of the pipeline.                                             *)
(***************************************************************************)
NamesOf(ws) == {Name(w) : w \in ws}

\* The lock is held when the k-th event of the iteration happens.
HeldAt(log, k) ==
    \E j \in 1..(k - 1) :
        /\ log[j].ev = "lock"
        /\ \A m \in (j + 1)..(k - 1) : log[m].ev # "unlock"

C7_ReturnedState ==
    /\ p_pc = "returned" =>
        /\ ph.iterCheck
        /\ ph.prevQuiet
        /\ ph.started = Workers
        /\ ph.doneOk = Workers
        /\ waiting = {}
        /\ \A w \in Workers : ~should_resume[w] /\ task[w].st # "running"
    /\ p_pc = "sleep" => (check_mode <=> ph.quietEnd)

C7_ReturnStep ==
    /\ (p_pc = "wait" /\ check_mode /\ p_pc' # "wait") =>
          (p_pc' = "returned" <=>
              \A w \in Workers : task[w].st = "ok" /\ ~should_resume[w])
    /\ (p_pc \in {"wait", "wait_rest"} /\ ~check_mode) => p_pc' # "returned"

\* C7 (amended): run returns normally exactly when an iteration ended with no
\* task in flight and the latest should_resume of every worker false, and the
\* iteration after it (check_mode) ran every worker, awaited them all and
\* found should_resume false at every worker again; it never returns while a
\* worker should resume or a task is in flight.
C7_ReturnsIffQuietTwice == []C7_ReturnedState /\ [][C7_ReturnStep]_vars

\* run returned although a worker was not run in the iteration before the
\* check_mode one: it was not due, its should_resume was an older report.
C7_Witness == p_pc = "returned" /\ ph.prevReported # Workers

\* C7 (as stated): when run returns normally, every observer reported
\* should_resume=false in the iteration before the check_mode iteration, and
\* every observer reported it again in the check_mode iteration.
C7_AllReportedInOneIteration ==
    p_pc = "returned" =>
        /\ ph.prevReported = Workers
        /\ ph.iterCheck
        /\ ph.reported = Workers
        /\ \A w \in Workers : ~should_resume[w]

C8_RaisedState ==
    /\ p_pc = "raised" => (excs # {} /\ excs = ph.doneErr)
    /\ ph.doneErr # {} => p_pc = "raised"

C8_RaisedStep ==
    (p_pc = "raised" /\ runs' = runs) =>
        /\ p_pc' = "raised"
        /\ iteration' = iteration
        /\ \A w \in Workers : task'[w].st = "running" => task[w].st = "running"

\* C8: if a task that a wait returned had raised, run raises a
\* ComplexException that holds exactly the exceptions of the tasks that wait
\* returned with an error; run then starts no task and no iteration.
C8_CombinedError == []C8_RaisedState /\ [][C8_RaisedStep]_vars

\* Every task of the wait raised, more than one.
C8_Witness == p_pc = "raised" /\ Cardinality(excs) = NumObservers /\ NumObservers > 1

\* C9: storage.save is handed exactly the workers whose tasks completed
\* without exception since the previous save, and it is called before the
\* combined error is raised: after the raise the storage holds the advanced
\* state of the workers that succeeded and the earlier state of those that
\* raised, and a restart loads just that.
C9_CheckpointBeforeError ==
    hasStorage =>
        /\ \A k \in 1..Len(ph.log) :
              ph.log[k].ev = "save" => ph.log[k].arg = NamesOf(ph.log[k].ok)
        /\ p_pc = "raised" =>
              /\ Len(ph.log) >= 2
              /\ ph.log[Len(ph.log) - 1].ev = "save"
              /\ ph.log[Len(ph.log) - 1].arg = NamesOf(ph.doneOk)
              /\ \A w \in ph.doneOk : stored[Name(w)] = Some(obsState[w])
              /\ \A w \in ph.doneErr : stored[Name(w)] = ph.storedBefore[Name(w)]
        /\ (runs > 1 /\ iteration >= 1) =>
              \A w \in Workers :
                  ph.injected[w] = IF ph.storedAtStart[Name(w)] = None THEN 0
                                   ELSE Get(ph.storedAtStart[Name(w)])

\* A restart after a wait in which one worker succeeded for the second time
\* and another one, saved once, raised.
C9_Witness ==
    /\ hasStorage /\ runs = 2 /\ p_pc = "wait" /\ iteration = 1
    /\ \E a, b \in Workers : ph.injected[a] = 2 /\ ph.injected[b] = 1

\* C10: the lock of the storage is taken before the load and before any task
\* is started; load, save and cleanup happen while it is held; it is released
\* before run sleeps and whenever run ends, and is not held during the sleep.
C10_LockDiscipline ==
    hasStorage =>
        /\ \A k \in 1..Len(ph.log) :
              ph.log[k].ev \in {"load", "save", "cleanup", "start"} => HeldAt(ph.log, k)
        /\ p_pc \in {"wait", "wait_rest"} => lock_held
        /\ p_pc \in {"sleep", "returned", "raised", "value_error", "assertion_error"} =>
              /\ ~lock_held
              /\ Last(ph.log).ev = "unlock"

\* run sleeps after an iteration that loaded, started tasks and saved.
C10_Witness ==
    /\ hasStorage /\ p_pc = "sleep" /\ ~lock_held
    /\ \E j, k, m \in 1..Len(ph.log) :
          ph.log[j].ev = "load" /\ ph.log[k].ev = "start" /\ ph.log[m].ev = "save"


\* C11: two instances with the same pipeline_key and the same storage lock
\* are never both inside the locked part of an iteration (load, start of
\* the observers, wait, save, quiescence check, cleanup).
C11_NoOverlap == ~(p_pc \in {"wait", "wait_rest"} /\ peer_pc = "locked")

\* One instance is due for its next iteration while the other is inside.
C11_Witness ==
    /\ peer_pc = "locked"
    /\ p_pc = "sleep" /\ sleep_left <= 0
    /\ iteration >= 1 /\ spent < MaxIter

\* The requests a plain pass is about to send: self._request for the fetch
\* by time, the fixed-time request of the sub-cursor during the drain.
C12_Frontier(t) ==
    /\ Get(request.gte) >= t
    /\ byid_request # None => Get(Get(byid_request).gte) >= t

C12_FrontierState == \A k \in 1..Len(yielded) : C12_Frontier(TimeOf(yielded[k]))

C12_FrontierStep ==
    /\ Get(request'.gte) >= Get(request.gte)
    /\ request.gt # None =>
          request'.gt # None /\ Get(request'.gt) >= Get(request.gt)
    /\ (byid_request # None /\ byid_request' # None) =>
          Get(Get(byid_request').gte) >= Get(Get(byid_request).gte)

\* C12: monotone time frontier. Within and across plain passes, once an
\* event of time t was yielded no later request has T_gte < t; T_gte of
\* the successive requests never decreases; T_gt, once set by a drain, is
\* never unset or decreased.
C12_MonotoneFrontier == []C12_FrontierState /\ [][C12_FrontierStep]_vars

\* A second pass went on from the frontier of a drain and yielded a later item.
C12_Witness ==
    /\ pc = "idle" /\ request.gt # None
    /\ Len(yielded) = MaxItems
    /\ TimeOf(Last(yielded)) > Get(request.gt)

\* C13 (amended): the events are yielded in non-decreasing time order; the
\* order among events of equal time is not fixed by their ids.
C13_TimeOrdered ==
    \A k \in 1..(Len(yielded) - 1) : TimeOf(yielded[k]) <= TimeOf(yielded[k + 1])

\* C13 as stated: the events are yielded in non-decreasing time order and events of
\* equal time in ascending id order, whatever order the remote gives to
\* equal-time items inside a page sorted by time.
C13_YieldOrder ==
    \A k \in 1..(Len(yielded) - 1) :
        \/ TimeOf(yielded[k]) < TimeOf(yielded[k + 1])
        \/ TimeOf(yielded[k]) = TimeOf(yielded[k + 1]) /\ yielded[k] < yielded[k + 1]

\* Equal-time events came out against their ids, before an event of a later time.
C13_Witness ==
    /\ Len(yielded) >= 3
    /\ \E k \in 1..(Len(yielded) - 1) :
          TimeOf(yielded[k]) = TimeOf(yielded[k + 1]) /\ yielded[k] > yielded[k + 1]
    /\ TimeOf(yielded[1]) < TimeOf(Last(yielded))
    /\ request.gt # None

\* C14: seen-set bound. After a page was processed (a final page with
\* has_more = false, a page followed by a by-id drain, a page of a later
\* pass) seen_ids is exactly the set of ids of that page, so it never holds
\* more than a page of ids and does not grow over repeated passes.
C14_SeenIsLastPage ==
    (pc \in {"idle", "paging"} /\ prev_response # None) =>
        /\ seen_ids = IdsOf(Get(prev_response).items)
        /\ Cardinality(seen_ids) <= PageSize


\* C15: after inject the two cursors share no mutable state: while the one
\* is iterated, the request and the seen_ids of the other stay as they were
\* when inject was called (whichever of the two was injected into).
C15_NoSharedState == inj # None => <<other.request, other.seen_ids>> = Get(inj)

C16_InjectStep ==
    /\ InjectCopy => <<request, prev_response, seen_ids>>' = CursorState
    /\ Inject =>
         /\ request' = other.request
         /\ PassFrom(<<request, prev_response, seen_ids>>') = PassFrom(OtherState)

C17_ResumeInCheckMode ==
    /\ (/\ ph.iterCheck
        /\ p_pc \in {"sleep", "returned"}
        /\ \E w \in Workers : should_resume[w])
       => /\ p_pc = "sleep"
          /\ ~check_mode
          /\ \A i \in 1..Len(ph.log) : ph.log[i].ev # "cleanup"
    /\ p_pc = "returned" => ph.iterCheck /\ ph.prevQuiet

\* A check_mode iteration over a storage ended with an observer that resumes.
C17_Witness ==
    /\ p_pc = "sleep" /\ ph.iterCheck /\ hasStorage
    /\ \E w \in Workers : should_resume[w]
    /\ \E w \in Workers : ~should_resume[w]


\* The latest report of every worker is false and no call is in flight.
C18_Settled == \A w \in Workers : ~should_resume[w] /\ task[w].st # "running"

\* C18: if no observer raises, every observer call completes and from some
\* point on every observer reports should_resume = false, run eventually
\* returns: every call in flight completes with false, every wait of run
\* ends, every sleep is followed by a new iteration (so the observers are
\* invoked again and again while run has not returned), and once the
\* latest report of every worker is false run returns after its next two
\* iterations. The last two are stated for the iterations that MaxIter
\* leaves.
C18_EventuallyReturns ==
    /\ \A w \in Workers :
          (no_work /\ task[w].st = "running")
              ~> (task[w].st # "running" /\ ~should_resume[w])
    /\ (p_pc \in {"wait", "wait_rest"}) ~> (p_pc \in {"sleep", "returned"})
    /\ (p_pc = "sleep" /\ spent < MaxIter) ~> (p_pc = "wait")
    /\ (no_work /\ C18_Settled /\ spent + 2 <= MaxIter) ~> (p_pc = "returned")

\* run returned although an observer had reported true before they ran
\* out of work.
C18_Witness ==
    /\ p_pc = "returned" /\ no_work
    /\ iteration > 2


\* C19: when the task that drives run is cancelled while observer tasks are
\* in flight, the in-flight observer tasks are cancelled as well: none of
\* them is left running.
C19_CancelReachesTasks ==
    p_pc = "cancelled" => \A w \in Workers : task[w].st # "running"

\* C20: run on a pipeline with no registered observer raises ValueError
\* before it takes the lock, touches the storage or starts a task; run gets
\* past that check only with an observer registered.
C20_NoObserversRaisesFirst ==
    /\ p_pc = "no_observers" =>
          /\ observers = <<>>
          /\ ph.log = <<>> /\ ~lock_held
          /\ iteration = 0 /\ waiting = {}
          /\ stored = [k \in Keys |-> None]
          /\ \A w \in Workers : task[w] = NoTask /\ obsState[w] = 0
    /\ p_pc \notin {"new", "no_observers"} => observers # <<>>
    /\ (p_pc = "new" /\ observers = <<>>) => iteration = 0 /\ ~lock_held

\* run was called on a pipeline that has a storage and no observer.
C20_Witness == p_pc = "no_observers" /\ hasStorage

\* The first call of register that was given the observer o.
FirstCall(o) ==
    CHOOSE k \in 1..Len(reg.calls) :
        reg.calls[k] = o /\ \A j \in 1..(k - 1) : reg.calls[j] # o

\* C21: register returns the observer it was given; the registry holds one
\* entry for every observer object that was registered, under its identity,
\* and the entries are in the order of the first registration of each: a
\* second registration of an object adds no entry and moves none.
C21_RegisterOnce ==
    /\ reg.calls # <<>> => reg.ret = Some(Last(reg.calls))
    /\ Range(Values(observers)) = Range(reg.calls)
    /\ \A i, j \in 1..Len(observers) :
          /\ observers[i].key = Id(observers[i].value)
          /\ i # j => observers[i].value # observers[j].value
          /\ i < j => FirstCall(observers[i].value) < FirstCall(observers[j].value)

\* An observer was registered again after a second one had been registered.
C21_Witness ==
    /\ Len(reg.calls) = 3 /\ Len(observers) = 2
    /\ reg.calls[3] = reg.calls[1] /\ reg.calls[2] # reg.calls[1]
    /\ p_pc = "wait"

C22_SleepState ==
    /\ p_pc = "returned" => ph.elapsed >= MIN_SLEEP_SECONDS
    /\ iteration > 1 => ph.elapsed >= MIN_SLEEP_SECONDS

C22_SleepStep ==
    /\ (p_pc # "sleep" /\ p_pc' = "sleep") =>
          /\ sleep_left' >= MIN_SLEEP_SECONDS
          /\ LET times == {Get(pending'[k]) : k \in {j \in Keys : pending'[j] # None}}
                 start_soon == IF p_pc = "wait_rest" \/ \A w \in Workers : ~should_resume[w]
                               THEN CHOOSE x \in times : \A y \in times : y <= x
                               ELSE CHOOSE x \in times : \A y \in times : x <= y
             IN sleep_left' = IF start_soon >= MIN_SLEEP_SECONDS
                              THEN start_soon ELSE MIN_SLEEP_SECONDS
    /\ (p_pc = "sleep" /\ p_pc' \notin {"sleep", "cancelled"}) =>
          ph.slept >= MIN_SLEEP_SECONDS

\* C22: when an iteration ends without return or error, run sleeps
\* max(start_soon - now, MIN_SLEEP_SECONDS) seconds, start_soon being the
\* latest due time when nobody should resume at the first wait of the
\* iteration and the earliest otherwise; no
\* iteration begins before MIN_SLEEP_SECONDS of that sleep have passed, also
\* when a worker is overdue; a run that returns has taken MIN_SLEEP_SECONDS
\* seconds or more.
C22_MinSleep == []C22_SleepState /\ [][C22_SleepStep]_vars

\* A sleep of MIN_SLEEP_SECONDS begins while a worker is due already.
C22_Witness ==
    /\ p_pc = "sleep" /\ ph.slept = 0 /\ iteration > 1
    /\ sleep_left = MIN_SLEEP_SECONDS
    /\ \E k \in Keys : pending[k] # None /\ Get(pending[k]) <= Now

\* The place of observer o in the order of registration.
RegPos(o) == CHOOSE k \in 1..Len(observers) : observers[k].value = o

\* The place of key k in a sequence of keys.
KeyPos(keys, k) == CHOOSE i \in 1..Len(keys) : keys[i] = k

C23_FirstIteration ==
    (iteration = 1 /\ p_pc \in {"wait", "wait_rest", "sleep", "raised", "cancelled"})
        => ph.startOrder = Values(observers)

C23_StartStep ==
    iteration' = iteration + 1 =>
        \A i, j \in 1..Len(ph'.startOrder) :
            i < j => KeyPos(pending_keys, Name(ph'.startOrder[i]))
                        < KeyPos(pending_keys, Name(ph'.startOrder[j]))

\* C23 (amended): in the first iteration all workers are started, in the
\* order in which their observers were registered; in every iteration the
\* workers are started in the order of the keys of the dict `pending`, which
\* after the first iteration is the order in which the finished tasks were
\* rescheduled.
C23_StartOrderOfPending == []C23_FirstIteration /\ [][C23_StartStep]_vars

\* Two workers whose tasks were started together, so that they are due at the
\* same moment, are started against the order of registration.
C23_Witness ==
    /\ p_pc = "wait" /\ iteration > 1 /\ Len(ph.startOrder) = 2
    /\ ph.prevStart[ph.startOrder[1]] = ph.prevStart[ph.startOrder[2]]
    /\ RegPos(ph.startOrder[1]) > RegPos(ph.startOrder[2])

\* C23 as stated: in every iteration, workers that are due at the same moment
\* (their previous tasks were started by one iteration, or they have not been
\* started yet) are started in the order of registration.
C23_RegistrationOrder ==
    \A i, j \in 1..Len(ph.startOrder) :
        (i < j /\ ph.prevStart[ph.startOrder[i]] = ph.prevStart[ph.startOrder[j]])
            => RegPos(ph.startOrder[i]) < RegPos(ph.startOrder[j])

C24_PartitionState ==
    /\ p_pc # "assertion_error"
    /\ p_pc \in {"start", "wait", "wait_rest", "sleep", "returned", "cancelled"} =>
          /\ \A w \in Workers : (pending[Name(w)] # None) <=> (w \notin waiting)
          /\ Range(pending_keys) = {k \in Keys : pending[k] # None}
          /\ Len(pending_keys) = Cardinality(Range(pending_keys))
    /\ \A w \in waiting : task[w].st # "none"

C24_StateReadStep ==
    LET old == IF iteration' # iteration THEN 0 ELSE Len(ph.log)
    IN \A k \in (old + 1)..Len(ph'.log) :
          /\ ph'.log[k].ev = "save" =>
                \A w \in Workers : Name(w) \in ph'.log[k].arg => task[w].st = "ok"
          /\ ph'.log[k].ev = "load" =>
                \A w \in Workers : task[w].st # "running"
          /\ ph'.log[k].ev = "start" =>
                \A w \in ph'.log[k].arg : task[w].st # "running" /\ w \notin waiting

\* C24: until an error aborts the run every worker is in exactly one of
\* `pending` and `waiting`; no worker is started while its previous task is
\* in flight (the assertion of run never fails); storage.load runs while no
\* task is in flight and storage.save is handed only observers whose task is
\* done.
C24_PendingOrWaiting == []C24_PartitionState /\ [][C24_StateReadStep]_vars

\* One worker was saved and rescheduled while the task of another one is
\* still in flight.
C24_Witness ==
    /\ hasStorage /\ p_pc = "sleep" /\ iteration > 1
    /\ \E w \in waiting : task[w].st = "running"
    /\ \E k \in 1..Len(ph.log) : ph.log[k].ev = "save" /\ ph.log[k].arg # {}

\* The places of the storage.cleanup calls in the log of the iteration.
C25_Cleanups == {k \in 1..Len(ph.log) : ph.log[k].ev = "cleanup"}

C25_CleanupState ==
    /\ Cardinality(C25_Cleanups) = IF p_pc = "returned" /\ hasStorage THEN 1 ELSE 0
    /\ \A k \in C25_Cleanups :
          /\ ph.log[k].arg = {Name(w) : w \in Workers}
          /\ HeldAt(ph.log, k)
          /\ ph.iterCheck
          /\ \A w \in Workers : ~should_resume[w]
          /\ waiting = {}
    /\ ph.cleanupRaised => (p_pc = "returned" /\ ~lock_held /\ excs = {})

C25_CleanupStep ==
    (/\ p_pc = "wait" /\ check_mode
     /\ \A w \in Workers : task[w].st = "ok" /\ ~should_resume[w])
        => (p_pc' = "wait" \/ p_pc' = "returned")

\* C25: storage.cleanup is called only at the end of a check_mode iteration
\* in which nobody should resume, when run returns: once, with the keys of
\* all workers, while the lock is held; it is not called when run raises; and
\* when cleanup raises, run returns all the same.
C25_CleanupOnlyOnReturn == []C25_CleanupState /\ [][C25_CleanupStep]_vars

\* run returned although storage.cleanup raised: the saved states are still
\* in the storage.
C25_Witness ==
    /\ p_pc = "returned" /\ ph.cleanupRaised
    /\ \E k \in Keys : stored[k] # None

C26_ConstructedState ==
    /\ caller_request = supplied
    /\ pc # "new" =>
          /\ request.gte # None
          /\ Get(request.gte) >= (IF supplied.gte = None THEN DATETIME_MIN
                                  ELSE Get(supplied.gte))
          /\ \A k \in 1..Len(yielded) :
                supplied.gte # None => TimeOf(yielded[k]) >= Get(supplied.gte)
    /\ \A it \in remote : DATETIME_MIN < it.t

C26_ConstructStep ==
    (pc = "new" /\ pc' # "new") =>
        /\ request'.gte = IF supplied.gte = None THEN Some(DATETIME_MIN) ELSE supplied.gte
        /\ request'.gt = supplied.gt
        /\ request'.lte = supplied.lte
        /\ request'.id_gt = supplied.id_gt

\* C26: the constructor leaves the cursor with a request that has a lower
\* time bound: DATETIME_MIN, which is below every item time, if the caller
\* gave none, the bound of the caller otherwise, the other predicates as the
\* caller gave them; the request object of the caller is never changed.
C26_LowerBoundOnConstruction == []C26_ConstructedState /\ [][C26_ConstructStep]_vars

\* A cursor was made of a request with an upper bound and no lower bound,
\* and a pass over it has yielded.
C26_Witness ==
    /\ pc = "idle" /\ supplied.gte = None /\ supplied.lte # None
    /\ caller_request.gte = None
    /\ yielded # <<>> /\ Len(yielded) < Cardinality(remote)

C27_RescheduleStep ==
    /\ \A w \in Workers :
          (w \in waiting /\ w \notin waiting' /\ task[w].st = "ok") =>
              pending'[Name(w)] = Some(task[w].start + Period)
    /\ \A w \in Workers :
          (task[w].st # "running" /\ task'[w].st = "running") =>
              /\ pending[Name(w)] # None
              /\ Get(pending[Name(w)]) <= Now
    /\ (iteration = 0 /\ iteration' = 1) =>
          \A w \in Workers : task'[w].st = "running"
    /\ \A k \in Keys :
          (pending[k] # None /\ pending'[k] # None /\ p_pc' = p_pc) =>
              Get(pending'[k]) <= Get(pending[k])

\* C27: a worker whose task ended without exception is rescheduled at the
\* start time of the iteration that started the task plus the period; its
\* due time is changed by nothing else; a worker is started only when its due
\* time is not after the start of the iteration (in check_mode, too, where
\* the sleep before has outlasted every due time), and the first iteration
\* starts all workers.
C27_RescheduledAtStartPlusPeriod == [][C27_RescheduleStep]_vars

\* A worker whose task took longer than the period is rescheduled at a time
\* that has passed, next to one that is due later.
C27_Witness ==
    /\ p_pc = "sleep" /\ iteration > 1
    /\ \E j, k \in Keys :
          /\ pending[j] # None /\ Get(pending[j]) <= Now
          /\ pending[k] # None /\ Get(pending[k]) = Period

\* The places of the storage.load calls in the log of the iteration.
C28_Loads == {k \in 1..Len(ph.log) : ph.log[k].ev = "load"}

\* C28: the saved states are loaded once per run: in iteration 1, inside
\* the lock and before any task is started; the state found under a key is
\* injected into the observer of the worker of that name and into no other,
\* an observer without a saved state keeps its own; later iterations do not
\* load, and without a storage nothing is loaded.
C28_LoadOnceInFirstIteration ==
    /\ Cardinality(C28_Loads) =
          IF hasStorage /\ iteration = 1 /\ p_pc \notin {"new", "start", "no_observers"}
          THEN 1 ELSE 0
    /\ \A k \in C28_Loads :
          /\ HeldAt(ph.log, k)
          /\ \A j \in 1..Len(ph.log) : ph.log[j].ev = "start" => k < j
    /\ iteration >= 1 =>
          \A w \in Workers :
              ph.injected[w] =
                  IF hasStorage /\ ph.storedAtStart[Name(w)] # None
                  THEN Get(ph.storedAtStart[Name(w)])
                  ELSE 0

\* A restarted run has loaded a storage that holds a state for one observer
\* and none for another.
C28_Witness ==
    /\ hasStorage /\ runs > 1 /\ iteration = 1 /\ p_pc = "wait"
    /\ \E a, b \in Workers :
          /\ ph.storedAtStart[Name(a)] # None /\ ph.injected[a] > 0
          /\ ph.storedAtStart[Name(b)] = None /\ ph.injected[b] = 0

\* C29: when the fetcher raises during a plain pass, by time or in the
\* middle of a by-id drain, the pass ends with the exception and the passes
\* that follow yield exactly the items not yielded yet: over all passes no
\* item is yielded twice, and a pass that returns has left no item of the
\* collection unyielded.
C29_ResumeAfterFetchError ==
    /\ \A j, k \in 1..Len(yielded) : j # k => yielded[j] # yielded[k]
    /\ (pc = "idle" /\ ended = "returned") =>
          {yielded[k] : k \in 1..Len(yielded)} = {it.id : it \in remote}
    /\ (pc = "idle" /\ ended = "raised") => failed # {}
    /\ IdsOf(res) \subseteq {yielded[k] : k \in 1..Len(yielded)}

\* After a pass that raised while paging by time and a pass that raised in
\* the middle of a by-id drain, a pass has returned that yielded the rest.
C29_Witness ==
    /\ pc = "idle" /\ ended = "returned"
    /\ failed = {"paging", "drain"}
    /\ res # <<>> /\ Len(res) < Len(yielded)
    /\ Len(yielded) = MaxItems

\* The request of the next fetch of a pass, with the sort it is issued with.
C30_Issued ==
    IF pc = "drain" THEN <<"id", Get(byid_request)>> ELSE <<"time", request>>

\* A fetch of a pass and what it leaves: a response with has_more yields a
\* new item or changes the request of the next fetch; a page by time with
\* has_more whose ids were all seen starts the by-id drain at its time; the
\* end of a drain moves T_gt of the request to the time of the drained page.
C30_ProgressStep ==
    LET resp == fetcher(C30_Issued[2], C30_Issued[1])
    IN pc \in {"paging", "drain"} =>
        /\ resp.has_more =>
              \/ Len(yielded') > Len(yielded)
              \/ pc' \in {"paging", "drain"} /\ C30_Issued' # C30_Issued
        /\ (pc = "paging" /\ resp.has_more /\ IdsOf(resp.items) \subseteq seen_ids) =>
              /\ pc' = "drain"
              /\ byid_request' = Some(evolve(request, "lte", Some(Last(resp.items).t)))
        /\ (pc = "drain" /\ pc' = "paging") =>
              /\ request' # request
              /\ request'.gt = Some(Last(Get(response).items).t)
              /\ request.gt = None \/ Get(request.gt) < Get(request'.gt)

\* C30: against a collection that does not change during the pass, every
\* plain pass ends; every fetched page with has_more yields a new item or
\* changes the request, and a page of already seen ids alone still moves
\* the cursor on, through the drain, to a later T_gt.
C30_PassTerminates ==
    /\ (pc \in {"paging", "drain"}) ~> (pc = "idle")
    /\ [][C30_ProgressStep]_vars

\* A pass is in the drain that its first page started, a page with has_more
\* of which every id had been seen in an earlier pass.
C30_Witness ==
    /\ pc = "drain" /\ mode = "iter"
    /\ res = <<>> /\ yielded # <<>>
    /\ Get(byid_request).id_gt = None
    /\ Get(response).has_more
    /\ IdsOf(Get(response).items) \subseteq {yielded[k] : k \in 1..Len(yielded)}

\* The fixed-time bucket of the drain in progress: the items its request
\* matches before any id_gt is set.
C31_Bucket ==
    LET req == Get(byid_request)
    IN {it \in remote :
          /\ (req.gte = None \/ it.t >= Get(req.gte))
          /\ (req.gt = None \/ it.t > Get(req.gt))
          /\ (req.lte = None \/ it.t <= Get(req.lte))}

\* During a drain the sub-cursor has yielded ids in ascending order, none
\* twice, and its id_gt is the id of the last item it yielded.
C31_DrainState ==
    pc = "drain" =>
        LET d == passLog.drained
        IN /\ \A j, k \in 1..Len(d) : j < k => d[j] < d[k]
           /\ Get(byid_request).id_gt = (IF d = <<>> THEN None ELSE Some(d[Len(d)]))

\* One round of the sub-cursor: the request goes out with sort = id; after
\* has_more the drain goes on, and the round without has_more ends it with
\* every id of the bucket yielded.
C31_DrainStep ==
    pc = "drain" =>
        LET resp == fetcher(Get(byid_request), "id")
            d == passLog'.drained
        IN /\ passLog'.issued = Append(passLog.issued, <<"id", Get(byid_request)>>)
           /\ resp.has_more <=> pc' = "drain"
           /\ pc' \in {"drain", "paging"}
           /\ pc' = "paging" =>
                 /\ {d[k] : k \in 1..Len(d)} = {it.id : it \in C31_Bucket}
                 /\ \A j, k \in 1..Len(d) : j < k => d[j] < d[k]

\* C31: the by-id sub-cursor yields every item of its fixed-time bucket
\* exactly once and in ascending id order: each round queries with sort = id,
\* a non-empty page moves id_gt to the id of the last item yielded, and the
\* first response without has_more ends it.
C31_ByIdYieldsBucketOnce == []C31_DrainState /\ [][C31_DrainStep]_vars

\* A drain of more than one round has ended: the sub-cursor has yielded more
\* ids than a page holds.
C31_Witness ==
    /\ pc = "paging" /\ mode = "iter"
    /\ Len(passLog.drained) > PageSize
    /\ passLog.issued[Len(passLog.issued)][1] = "id"
    /\ passLog.issued[Len(passLog.issued)][2].id_gt # None

\* C32: whenever the by-id drain runs, the request it was started with has
\* T_gte = T_lte = max_time, the time that the whole triggering page shares,
\* also when the cursor had seen every item of that page before.
C32_DrainAtOneTime ==
    pc = "drain" =>
        LET page == Get(response).items
            max_time == page[Len(page)].t
        IN /\ \A k \in 1..Len(page) : page[k].t = max_time
           /\ Get(byid_request).lte = Some(max_time)
           /\ Get(byid_request).gte = Some(max_time)

\* s is the beginning of t.
C33_Prefix(s, t) == Len(s) <= Len(t) /\ \A k \in 1..Len(s) : s[k] = t[k]

\* In the middle of a blocking pass: the requests issued and the events
\* yielded so far are the beginning of those of the suspending pass from
\* the same start state against the same collection.
C33_SameSoFar ==
    pc \in {"paging", "drain"} =>
        LET a == AiterFrom(passLog.start)
        IN /\ C33_Prefix(passLog.issued, a.issued)
           /\ C33_Prefix(res, a.out)

\* The steps that end a blocking pass or scope, against the suspending one:
\* __iter__ returns as __aiter__ does, __enter__ leaves what __aenter__
\* leaves, __exit__ what __aexit__ leaves.
C33_SameEndStep ==
    /\ (pc \in {"paging", "drain"} /\ pc' = "idle" /\ ended' = "returned" /\ mode = "iter") =>
          LET a == AiterFrom(passLog.start)
          IN /\ passLog'.issued = a.issued
             /\ res' = a.out
             /\ <<request', prev_response', seen_ids'>>
                    = <<a.request, a.prev_response, a.seen_ids>>
    /\ (pc \in {"paging", "drain"} /\ pc' = "body") =>
          LET c == Aenter(passLog.start)
          IN /\ passLog'.issued = c.issued
             /\ res' = c.res
             /\ start_state' = c.start_state
             /\ finish_state' = c.finish_state
             /\ <<request', prev_response', seen_ids'>> = c.state
    /\ (pc = "body" /\ pc' = "idle") =>
          <<request', prev_response', seen_ids'>>
              = Aexit(finish_state, <<request, prev_response, seen_ids>>,
                      IF lastExit' = "commit" THEN None ELSE Some("Exception"))

\* C33: the blocking iteration (__iter__, the by-id drain, __enter__ and
\* __exit__) and the suspending one (__aiter__, the async drain, __aenter__
\* and __aexit__) issue the same requests, yield the same events in the same
\* order and end in the same cursor state, from the same start state and
\* against the same responses.
C33_SyncAsyncEquivalent == []C33_SameSoFar /\ [][C33_SameEndStep]_vars

\* A try_fetch_all scope is in its body after a pass with a by-id drain
\* that started from a state with seen ids.
C33_Witness ==
    /\ pc = "body"
    /\ passLog.start[3] # {}
    /\ res # <<>>
    /\ \E k \in 1..Len(passLog.issued) : passLog.issued[k][1] = "id"
    /\ Get(finish_state) # Get(start_state)

\* The dicts that hold the observers of _observers in any order of
\* registration.
C34_Reorderings ==
    {d \in [1..Len(observers) -> Range(observers)] : Range(d) = Range(observers)}

\* The key of run is the key of every pipeline of the same name with the
\* same observers registered in another order, and of no pipeline with
\* the same observers and another non-empty name.
C34_KeyOfNameAndObservers ==
    pipeline_key # None =>
        /\ \A d \in C34_Reorderings :
              /\ UniqueKeyOf(p_name, d) = UniqueKeyOf(p_name, observers)
              /\ pipeline_key = Some(str(UniqueKeyOf(p_name, d)))
        /\ \A n \in PipelineNames \ {None, Some("")} :
              (p_name \notin {None, Some("")} /\ n # p_name) =>
                  /\ UniqueKeyOf(n, observers) # UniqueKeyOf(p_name, observers)
                  /\ pipeline_key # Some(str(UniqueKeyOf(n, observers)))

\* Every lock, load, save and cleanup of the run was given the pipeline key
\* that run computed at its start.
C34_OneKeyInRun ==
    \A k \in 1..Len(ph.log) :
        ph.log[k].ev \in {"lock", "unlock", "load", "save", "cleanup"} =>
            /\ ph.log[k].key = pipeline_key
            /\ pipeline_key = Some(str([class |-> "Pipeline",
                                        name |-> IF p_name = None THEN "" ELSE Get(p_name),
                                        keys |-> [j \in 1..NumObservers |-> j]]))

\* C34: the pipeline key (class name, name or '', sorted observer keys) does
\* not depend on the order of registration, differs for different
\* non-empty names, and one and the same key goes to lock, load, save and
\* cleanup throughout a run.
C34_PipelineKey == C34_KeyOfNameAndObservers /\ C34_OneKeyInRun

\* A run of a named pipeline whose observers were registered in descending
\* key order has returned: its last iteration has locked, saved and
\* cleaned up.
C34_Witness ==
    /\ p_name = Some("a")
    /\ \E k \in 1..(Len(observers) - 1) :
          obsKey[observers[k].value] > obsKey[observers[k + 1].value]
    /\ p_pc = "returned"
    /\ \A e \in {"lock", "save", "cleanup"} :
          \E k \in 1..Len(ph.log) : ph.log[k].ev = e

\* C35: wait_operation returns the given operation at once, without
\* polling, when it is already completed; otherwise it polls get_operation
\* and either returns an operation for which is_completed() is true or
\* raises TimeoutError after the deadline (call time + timeout) has passed:
\* it never returns an uncompleted operation and it polls at least once
\* before it times out.
C35_WaitOperation ==
    w_pc \notin {"idle", "called"} =>
        /\ Get(wh.given).completed =>
              /\ w_pc = "returned"
              /\ wh.polls = 0
              /\ wh.result = wh.given
              /\ utcnow = wh.called_at
        /\ w_pc = "returned" =>
              /\ wh.result # None
              /\ Get(wh.result).completed
              /\ ~Get(wh.given).completed => wh.polls >= 1
        /\ w_pc = "timeout" =>
              /\ ~Get(wh.given).completed
              /\ wh.result = None
              /\ wh.polls >= 1
              /\ utcnow > wh.called_at + timeout

C35_Witness ==
    /\ w_pc = "timeout"
    /\ wh.polls >= 2
    /\ server_completed

\* C36: with join_events set the metric returns, for each metric name, the
\* single point (event_time of the last event, number of events) when its
\* cursor yielded at least one event and (current time, 0) when it yielded
\* none; without join_events it returns one (event_time, count) point per
\* run of consecutive events with equal event_time.
RECURSIVE C36_Events(_)
C36_Events(points) ==
    IF points = <<>> THEN <<>>
    ELSE [k \in 1..Head(points)[2] |-> Head(points)[1]] \o C36_Events(Tail(points))

C36_Runs(points, events) ==
    /\ \A k \in 1..Len(points) : points[k][2] >= 1
    /\ \A k \in 1..Len(points) - 1 : points[k][1] # points[k + 1][1]
    /\ C36_Events(points) = events

C36_Point(points, events) ==
    points = IF events = <<>> THEN << <<utcnow, 0>> >>
             ELSE << <<events[Len(events)], Len(events)>> >>

C36_LinesOfMetric ==
    /\ m_pc # "raised"
    /\ m_pc = "returned" =>
          /\ Len(result) = Len(MetricNames)
          /\ \A k \in 1..Len(MetricNames) :
                IF join_events
                THEN C36_Point(result[k], event_lists[MetricNames[k]])
                ELSE C36_Runs(result[k], event_lists[MetricNames[k]])

\* C37: every registered observer is started in the first iteration of run
\* and is run again in the check_mode iteration before run returns, for any
\* registered observer objects, distinct observers with equal unique keys
\* included.
C37_Registered == Range(Values(observers))

C37_EveryObserverRuns ==
    /\ (iteration = 1 /\ p_pc \in {"wait", "wait_rest", "sleep", "returned", "raised"}) =>
          ph.started = C37_Registered
    /\ p_pc = "returned" =>
          /\ ph.iterCheck
          /\ ph.started = C37_Registered
          /\ \A w \in C37_Registered : ph.lastStart[w] = iteration

\* C38: when Pipeline.run raises the combined error, no observer task the
\* pipeline started is still in flight: every started task has completed
\* and its outcome was processed, saved or included in the combined error.
C38_NoTaskInFlightWhenRaised ==
    p_pc = "raised" =>
        /\ waiting = {}
        /\ \A w \in Workers :
              /\ task[w].st # "running"
              /\ task[w].st = "error" => w \in excs

\* C39: an observer task executes only while its pipeline holds the storage
\* lock: no observer task of the pipeline is in flight during the sleep
\* between two iterations, when the lock is released and another instance
\* with the same key may run its iteration.
C39_NoTaskInFlightDuringSleep ==
    (hasStorage /\ p_pc = "sleep") =>
        /\ ~lock_held
        /\ waiting = {}
        /\ \A w \in Workers : task[w].st # "running"

====
